---- MODULE Spec2Model ----
(***************************************************************************)
(* Stratum V2 channel / job-dispatch engine.                               *)
(*                                                                         *)
(* Part 1 (Spec): GroupChannelJobDispatcher instances that share one job   *)
(* id generator (messages-sv2/src/job_dispatcher.rs, Id in utils.rs, the   *)
(* sharing set up by mining-proxy/src/main.rs initialize_r_logic).         *)
(* Part 2 (SpecGroups): UpstreamWithGroups, the allocation of group ids,   *)
(* channel ids and extranonce prefixes (group_channel_logic.rs).           *)
(***************************************************************************)
EXTENDS Integers, Sequences, FiniteSets, TLC

(***************************************************************************)
(* Bounds of the model and the sample values of message fields.            *)
(***************************************************************************)
\* Cap on the number of job ids drawn from the shared generator.
MaxJobs == 3
\* Cap on the number of extranonce prefixes allocated by one upstream.
MaxChannels == 4
\* Cap on the number of group channels of one upstream.
MaxGroups == 2

\* Key in channel_id_to_job_dispatcher of the dispatcher that is modelled in
\* full.  The dispatchers of the other groups and upstreams hold a clone of the
\* same Arc<Mutex<Id>> and nothing else in common: they appear as SiblingGroup,
\* through the ids they draw (SiblingOnNewExtendedMiningJob).
Dispatchers == {1}
SiblingGroup == {2}
\* job_id values of NewExtendedMiningJob / SetNewPrevHash sent by the upstream.
ExtendedJobIds == {7, 8}
\* channel_id values of the standard channels opened beneath a group.
ChannelIds == {1, 2}
\* prev_hash (as the bytes stored by to_vec) and nbits values of SetNewPrevHash.
PrevHashes == {<<45>>}
NbitsValues == {9}
\* sequence numbers of submitted shares.
SequenceNumbers == {20}
\* request_id and downstream_hr values of new_standard_channel.
RequestIds == {5, 6}
HashRates == {0}

VARIABLES
    ids,            \* Arc<Mutex<Id>> shared by every dispatcher: Id.state
    dispatchers,    \* group channel id -> GroupChannelJobDispatcher
    last,           \* the last call made on a dispatcher and what it returned
    issued,         \* the NewMiningJob messages returned so far, in call order
    crashed,        \* a panic unwound the task that owns the dispatchers
    groups,         \* UpstreamWithGroups.groups: group id -> Id.state
    group_ids,      \* UpstreamWithGroups.ids: Id.state
    extranonces,    \* UpstreamWithGroups.extranonces
    opened,         \* the OpenStandardMiningChannelSuccess returned so far, in call order
    group_ret,      \* what the last call on the UpstreamWithGroups returned
    selector,       \* ProxyDownstreamMiningSelector: its three maps
    sel_last,       \* the last call made on the selector and what it returned
    upstream_selector,  \* GeneralMiningSelector: upstreams and id_to_upstream
    pair_last,      \* the last on_setup_connection call and what it returned
    mapper,         \* RequestIdMapper: request_ids_map and next_id
    mapper_last,    \* the last call made on the mapper and what it returned
    assigned,       \* the on_open_channel calls so far: argument and result, in call order
    initiator,      \* noise_sv2::Initiator of the connecting side
    responder,      \* noise_sv2::Responder of the accepting side
    i_status,       \* where the task that drives the Initiator is
    r_status,       \* where the task that drives the Responder is
    net_to_r,       \* handshake message in flight to the responder
    net_to_i,       \* handshake message in flight to the initiator
    hs_log,         \* the results of the step calls so far, in call order
    altered,        \* what was changed in transit: the algorithm list, the choice
    i_transport,    \* TransportMode installed on the initiator's side
    r_transport,    \* TransportMode installed on the responder's side
    wire,           \* the encrypted messages in flight, by sending side, oldest first
    tr_sent,        \* the payloads written so far, by sending side, in order
    tr_received,    \* the results of the reads so far, by sending side, in order
    reader_status,  \* the reader task of a Connection: running or panicked
    incoming,       \* the frames queued on sender_incoming / receiver_incoming
    read_log,       \* what read_exact and next_frame returned so far, in order
    lock_holder,    \* Arc<Mutex<Connection>>: the task that holds the guard, if any
    reader_pc,      \* where the reader task of Connection::new is
    writer_pc,      \* where the writer task of Connection::new is
    incoming_q,     \* frames on sender_incoming / receiver_incoming, oldest first
    outgoing_q,     \* frames on sender_outgoing / receiver_outgoing, oldest first
    outgoing_open,  \* a Sender of the outgoing queue is still alive
    state_set,      \* set_state has installed the transport state
    mutex,          \* roles_logic_sv2::utils::Mutex<T>: the value and the poison flag
    mutex_last,     \* the last call made on the Mutex and what it returned
    upstream_node,  \* UpstreamMiningNode of the mining proxy: dispatchers, selector, job_ids
    down_nodes,     \* DownstreamMiningNode by name: its channels and the frames sent to it
    node_last,      \* the last message the node handled, the directive and what next did
    node_crashed,   \* the task that relays the upstream's messages panicked
    mining_node,    \* UpstreamMiningNode: connection and sv2_connection
    upstream_inbox, \* the frames queued on the connection's sender, oldest first
    send_last,      \* the last call of send or setup_flag_and_version and its result
    sv1,            \* Downstream of the translator by connection: fields and tasks
    extended_extranonce,  \* accept_connections: the ExtendedExtranonce of the accept loop
    last_notify,    \* Arc<Mutex<Option<Notify>>> shared with every Downstream
    mining_notify_q,  \* the Notify queued on the mining_notify channel, oldest first
    submit_q,       \* the (Submit, ExtendedExtranonce) queued on submit_sender, oldest first
    sv1_target,     \* Arc<Mutex<Vec<u8>>>: the target shared with every Downstream
    next_mining_notify,  \* NextMiningNotify of the Bridge: the two messages kept
    sv1_last,       \* the last SV1 request handled and what became of it
    job_id_to_upstream_id,  \* JOB_ID_TO_UPSTREAM_ID: the HashMap<u32, u32> under the Mutex
    global_locks,   \* whether ROUTING_LOGIC / JOB_ID_TO_UPSTREAM_ID is poisoned
    proxy_job_ids,  \* Arc<Mutex<Id>> job_ids given to every UpstreamMiningNode: Id.state
    relayed_jobs,   \* the jobs sent downstream so far: job id and issuing upstream, in order
    job_id_last,    \* the last call on the global map and what it returned
    short_hash_last, \* the last call of get_short_hash: arguments, keys, hash and result
    up_pc,          \* Connection::new as Responder: where the handshake stands
    up_lock,        \* who holds the Mutex of the Connection
    up_writer,      \* the writer task: its position and the frame it holds
    up_reader,      \* the reader task: its position and the frame it holds
    up_outgoing,    \* the frames queued on sender_outgoing, oldest first
    up_incoming,    \* the frames queued on sender_incoming, oldest first
    up_state,       \* Connection.state, the codec state that encode and next_frame use
    up_encoded,     \* the frames encoded so far, each with the codec state it was encoded in
    up_wire,        \* what the initiator wrote on the TCP stream and the reader did not read yet
    up_counts,      \* how many frames the initiator and the role sent so far
    pool_setup      \* pool: per connection, the SetupConnectionHandler and where setup stands

dispVars == <<ids, dispatchers, last, issued, crashed>>
groupVars == <<groups, group_ids, extranonces, opened, group_ret>>
selVars == <<selector, sel_last>>
upselVars == <<upstream_selector, pair_last>>
\* The variables of the parts added after the dispatcher and the groups.
mapperVars == <<mapper, mapper_last, assigned>>
hsVars == <<initiator, responder, i_status, r_status, net_to_r, net_to_i, hs_log, altered>>
trVars == <<i_transport, r_transport, wire, tr_sent, tr_received>>
noiseVars == <<hsVars, trVars>>
connVars == <<reader_status, incoming, read_log>>
taskVars == <<lock_holder, reader_pc, writer_pc, incoming_q, outgoing_q, outgoing_open, state_set>>
\* The variables of the tasks, the locks and the roles.
mutexVars == <<mutex, mutex_last>>
proxyVars == <<upstream_node, down_nodes, node_last, node_crashed>>
sendVars == <<mining_node, upstream_inbox, send_last>>
translatorVars ==
    <<sv1, extended_extranonce, last_notify, mining_notify_q, submit_q, sv1_target,
      next_mining_notify, sv1_last>>
jobIdVars == <<job_id_to_upstream_id, global_locks, proxy_job_ids, relayed_jobs, job_id_last>>
shortHashVars == <<short_hash_last>>
poolSetupVars == <<pool_setup>>
upHsVars ==
    <<up_pc, up_lock, up_writer, up_reader, up_outgoing, up_incoming, up_state, up_encoded,
      up_wire, up_counts>>
\* The variables of the parts added last.
lateVars == <<jobIdVars, shortHashVars, upHsVars, poolSetupVars>>
roleVars == <<taskVars, mutexVars, proxyVars, sendVars, translatorVars, lateVars>>
extVars == <<selVars, upselVars, mapperVars, noiseVars, connVars, roleVars>>
\* What an action of the selector leaves alone.
selOthers == <<dispVars, groupVars, upselVars, mapperVars, noiseVars, connVars, roleVars>>
\* What an action of the upstream selector leaves alone.
upselOthers == <<dispVars, groupVars, selVars, mapperVars, noiseVars, connVars, roleVars>>
\* What an action of the request id mapper leaves alone.
mapperOthers == <<dispVars, groupVars, selVars, upselVars, noiseVars, connVars, roleVars>>
\* What an action of the noise session leaves alone.
noiseOthers == <<dispVars, groupVars, selVars, upselVars, mapperVars, connVars, roleVars>>
\* What an action of the connection's tasks leaves alone.
connOthers == <<dispVars, groupVars, selVars, upselVars, mapperVars, noiseVars, roleVars>>
\* What a step of the connection's reader, writer or set_state leaves alone.
taskOthers ==
    <<dispVars, groupVars, selVars, upselVars, mapperVars, noiseVars, connVars, mutexVars,
      proxyVars, sendVars, translatorVars, lateVars>>
\* What a call on the Mutex leaves alone.
mutexOthers ==
    <<dispVars, groupVars, selVars, upselVars, mapperVars, noiseVars, connVars, taskVars,
      proxyVars, sendVars, translatorVars, lateVars>>
\* What a handler of the proxy's upstream node leaves alone.
proxyOthers ==
    <<dispVars, groupVars, selVars, upselVars, mapperVars, noiseVars, connVars, taskVars,
      mutexVars, sendVars, translatorVars, lateVars>>
\* What UpstreamMiningNode::send and the connection under it leave alone.
sendOthers ==
    <<dispVars, groupVars, selVars, upselVars, mapperVars, noiseVars, connVars, taskVars,
      mutexVars, proxyVars, translatorVars, lateVars>>
\* What the SV1 side of the translator leaves alone.
translatorOthers ==
    <<dispVars, groupVars, selVars, upselVars, mapperVars, noiseVars, connVars, taskVars,
      mutexVars, proxyVars, sendVars, lateVars>>
\* Every variable of the parts modelled before the last ones.
earlierVars ==
    <<dispVars, groupVars, selVars, upselVars, mapperVars, noiseVars, connVars, taskVars,
      mutexVars, proxyVars, sendVars, translatorVars>>
\* What a call on the proxy's global job id map leaves alone.
jobIdOthers == <<earlierVars, shortHashVars, upHsVars, poolSetupVars>>
\* What a call of get_short_hash leaves alone.
shortHashOthers == <<earlierVars, jobIdVars, upHsVars, poolSetupVars>>
\* What a step of the pool's SetupConnectionHandler leaves alone.
poolSetupOthers == <<earlierVars, jobIdVars, shortHashVars, upHsVars>>
\* What a step of Connection::new as Responder leaves alone.
upHsOthers == <<earlierVars, jobIdVars, shortHashVars, poolSetupVars>>
vars == <<dispVars, groupVars, extVars>>

(***************************************************************************)
(* HashMap helpers.                                                        *)
(***************************************************************************)
\* HashMap::new()
EmptyMap == << >>

\* HashMap::insert: the value stored under an existing key is replaced.
MapInsert(m, k, v) == [x \in (DOMAIN m) \cup {k} |-> IF x = k THEN v ELSE m[x]]

\* HashMap::remove: the map without the key.
MapRemove(m, k) ==
    IF (DOMAIN m) \ {k} = {} THEN EmptyMap ELSE [x \in (DOMAIN m) \ {k} |-> m[x]]

(***************************************************************************)
(* Id (utils.rs).                                                          *)
(***************************************************************************)
\* Id::new
IdNew == 0

\* Faulty variant of IdNext: the counter is returned without being advanced.
IdNextStuck(state) == state

\* Id::next: self.state += 1; self.state.  MaxJobs, MaxChannels and MaxGroups
\* keep the counter far below u32::MAX.
IdNext(state) == state + 1

(***************************************************************************)
(* Messages.                                                               *)
(***************************************************************************)
\* StandardChannel { channel_id, group_id, target, extranonce } of group g.
\* The extranonce prefixes are those an upstream hands out: distinct per channel.
StandardChannel(g, c) ==
    [channel_id |-> c, group_id |-> g, target |-> 0, extranonce |-> 100 * g + c]

\* NewExtendedMiningJob received on group channel g.  The coinbase prefix and
\* suffix and the merkle path are those of the upstream's job job_id.
NewExtendedMiningJob(g, j, f) ==
    [channel_id |-> g, job_id |-> j, future_job |-> f, version |-> 2,
     version_rolling_allowed |-> FALSE, coinbase |-> j]

\* SetNewPrevHash { channel_id, job_id, prev_hash, min_ntime, nbits }
SetNewPrevHash(g, j, p, n) ==
    [channel_id |-> g, job_id |-> j, prev_hash |-> p, min_ntime |-> 0, nbits |-> n]

\* SubmitSharesStandard { channel_id, sequence_number, job_id, nonce, ntime, version }
SubmitSharesStandard(c, q, j) ==
    [channel_id |-> c, sequence_number |-> q, job_id |-> j,
     nonce |-> 31, ntime |-> 32, version |-> 33]

(***************************************************************************)
(* job_dispatcher.rs                                                       *)
(***************************************************************************)
\* merkle_root_from_path: sha256d over prefix || extranonce || suffix folded
\* over the path; kept symbolic, injective in the coinbase and the extranonce.
merkle_root_from_path(coinbase, extranonce) == <<"sha256d", coinbase, extranonce>>

extended_to_standard_job_for_group_channel(extended, extranonce, channel_id, job_id) ==
    [channel_id |-> channel_id,
     job_id |-> job_id,
     future_job |-> extended.future_job,
     version |-> extended.version,
     merkle_root |-> merkle_root_from_path(extended.coinbase, extranonce)]

\* GroupChannelJobDispatcher::new
GroupChannelJobDispatcherNew ==
    [target |-> 0, prev_hash |-> << >>, future_jobs |-> EmptyMap,
     jobs |-> EmptyMap, nbits |-> 0]

\* GroupChannelJobDispatcher::on_new_extended_mining_job, job_id being the value
\* returned by self.ids.next().  Returns the dispatcher and the NewMiningJob.
on_new_extended_mining_job(self, extended, channel, job_id) ==
    LET cleared == IF extended.future_job
                   THEN MapInsert(self.future_jobs, extended.job_id, EmptyMap)
                   ELSE self.future_jobs
        new_mining_job_message ==
            extended_to_standard_job_for_group_channel(
                extended, channel.extranonce, channel.channel_id, job_id)
        job == [merkle_root |-> new_mining_job_message.merkle_root,
                extended_job_id |-> extended.job_id]
    IN  [self |->
            IF extended.future_job
            THEN [self EXCEPT !.future_jobs =
                    MapInsert(cleared, extended.job_id,
                        MapInsert(cleared[extended.job_id],
                                  new_mining_job_message.job_id, job))]
            ELSE [self EXCEPT !.jobs =
                    MapInsert(self.jobs, new_mining_job_message.job_id, job)],
         ret |-> new_mining_job_message]

\* Faulty variant of on_new_prev_hash: the promoted jobs are added to the current jobs
\* (extend) where the code swaps them in.
on_new_prev_hash_KeepCurrent(self, message) ==
    IF self.future_jobs = EmptyMap
    THEN [self |-> self, ret |-> "NoFutureJobs"]
    ELSE IF message.job_id \notin DOMAIN self.future_jobs
    THEN [self |-> self, ret |-> "panic"]
    ELSE LET promoted == self.future_jobs[message.job_id]
         IN  [self |-> [self EXCEPT
                    !.jobs = [x \in (DOMAIN self.jobs) \cup (DOMAIN promoted) |->
                                IF x \in DOMAIN promoted THEN promoted[x] ELSE self.jobs[x]],
                    !.prev_hash = message.prev_hash,
                    !.nbits = message.nbits,
                    !.future_jobs = EmptyMap],
              ret |-> "Ok"]

\* Faulty variant of on_new_prev_hash: the jobs of every queued extended job are
\* promoted, not only those of message.job_id.
on_new_prev_hash_PromoteAll(self, message) ==
    IF self.future_jobs = EmptyMap
    THEN [self |-> self, ret |-> "NoFutureJobs"]
    ELSE IF message.job_id \notin DOMAIN self.future_jobs
    THEN [self |-> self, ret |-> "panic"]
    ELSE LET all == UNION {DOMAIN self.future_jobs[e] : e \in DOMAIN self.future_jobs}
             owner(x) == CHOOSE e \in DOMAIN self.future_jobs :
                            x \in DOMAIN self.future_jobs[e]
         IN  [self |-> [self EXCEPT
                    !.jobs = [x \in all |-> self.future_jobs[owner(x)][x]],
                    !.prev_hash = message.prev_hash,
                    !.nbits = message.nbits,
                    !.future_jobs = EmptyMap],
              ret |-> "Ok"]

\* Faulty variant of on_new_prev_hash: prev_hash and nbits are stored before the
\* check for queued future jobs.
on_new_prev_hash_StoreFirst(self, message) ==
    LET stored == [self EXCEPT !.prev_hash = message.prev_hash,
                               !.nbits = message.nbits]
    IN  IF self.future_jobs = EmptyMap
        THEN [self |-> stored, ret |-> "NoFutureJobs"]
        ELSE IF message.job_id \notin DOMAIN self.future_jobs
        THEN [self |-> stored, ret |-> "panic"]
        ELSE [self |-> [stored EXCEPT !.jobs = self.future_jobs[message.job_id],
                                      !.future_jobs = EmptyMap],
              ret |-> "Ok"]

\* GroupChannelJobDispatcher::on_new_prev_hash.  ret is "Ok", the error
\* "NoFutureJobs", or "panic" for the panic!() of the missing-key arm.
\* mem::swap puts the old current jobs under future_jobs[job_id], and
\* future_jobs.clear() then drops them with every other queued job.
on_new_prev_hash(self, message) ==
    IF self.future_jobs = EmptyMap
    THEN [self |-> self, ret |-> "NoFutureJobs"]
    ELSE IF message.job_id \notin DOMAIN self.future_jobs
    THEN [self |-> self, ret |-> "panic"]
    ELSE LET swapped == [self EXCEPT
                            !.jobs = self.future_jobs[message.job_id],
                            !.future_jobs = MapInsert(self.future_jobs,
                                                      message.job_id, self.jobs)]
         IN  [self |-> [swapped EXCEPT !.prev_hash = message.prev_hash,
                                       !.nbits = message.nbits,
                                       !.future_jobs = EmptyMap],
              ret |-> "Ok"]

\* Faulty variant of on_submit_shares: the share keeps the standard job id.
on_submit_shares_KeepJobId(self, shares) ==
    IF shares.job_id \in DOMAIN self.jobs
    THEN [kind |-> "Valid",
          msg |-> [channel_id |-> shares.channel_id,
                   sequence_number |-> shares.sequence_number,
                   job_id |-> shares.job_id,
                   nonce |-> shares.nonce,
                   ntime |-> shares.ntime,
                   version |-> shares.version]]
    ELSE [kind |-> "Invalid",
          msg |-> [channel_id |-> shares.channel_id,
                   sequence_number |-> shares.sequence_number,
                   error_code |-> ""]]

\* GroupChannelJobDispatcher::on_submit_shares: SendSharesResponse::Valid with
\* a SubmitSharesStandard, or ::Invalid with a SubmitSharesError.
on_submit_shares(self, shares) ==
    IF shares.job_id \in DOMAIN self.jobs
    THEN [kind |-> "Valid",
          msg |-> [channel_id |-> shares.channel_id,
                   sequence_number |-> shares.sequence_number,
                   job_id |-> self.jobs[shares.job_id].extended_job_id,
                   nonce |-> shares.nonce,
                   ntime |-> shares.ntime,
                   version |-> shares.version]]
    ELSE [kind |-> "Invalid",
          msg |-> [channel_id |-> shares.channel_id,
                   sequence_number |-> shares.sequence_number,
                   error_code |-> ""]]

(***************************************************************************)
(* Actions of the dispatchers.  Every call is recorded in last.            *)
(***************************************************************************)
DispatcherOnNewExtendedMiningJob(d, j, f, c) ==
    /\ ~crashed
    /\ ids < MaxJobs
    /\ LET extended == NewExtendedMiningJob(d, j, f)
           channel == StandardChannel(d, c)
           job_id == IdNext(ids)
           r == on_new_extended_mining_job(dispatchers[d], extended, channel, job_id)
       IN  /\ ids' = job_id
           /\ dispatchers' = [dispatchers EXCEPT ![d] = r.self]
           /\ last' = [op |-> "on_new_extended_mining_job", d |-> d,
                       arg |-> extended, channel |-> channel, ret |-> r.ret]
           /\ issued' = Append(issued, [d |-> d, extended_job_id |-> j,
                                        channel |-> channel, job |-> r.ret])
    /\ UNCHANGED <<crashed, groupVars, extVars>>

\* on_new_extended_mining_job on a dispatcher of another group or upstream
\* that was built with the same job_ids (main.rs initialize_r_logic,
\* upstream_mining.rs handle_open_standard_mining_channel_success).
SiblingOnNewExtendedMiningJob(g) ==
    /\ ~crashed
    /\ ids < MaxJobs
    /\ ids' = IdNext(ids)
    /\ last' = [op |-> "on_new_extended_mining_job", d |-> g, arg |-> << >>,
                channel |-> << >>, ret |-> [job_id |-> IdNext(ids)]]
    /\ issued' = Append(issued, [d |-> g, extended_job_id |-> 0, channel |-> << >>,
                                 job |-> [job_id |-> IdNext(ids)]])
    /\ UNCHANGED <<dispatchers, crashed, groupVars, extVars>>

DispatcherOnNewPrevHash(d, j, p, n) ==
    /\ ~crashed
    /\ LET message == SetNewPrevHash(d, j, p, n)
           r == on_new_prev_hash(dispatchers[d], message)
       IN  /\ dispatchers' = [dispatchers EXCEPT ![d] = r.self]
           /\ crashed' = (r.ret = "panic")
           /\ last' = [op |-> "on_new_prev_hash", d |-> d, arg |-> message,
                       channel |-> << >>, ret |-> r.ret]
    /\ UNCHANGED <<ids, issued, groupVars, extVars>>

DispatcherOnSubmitShares(d, c, q, j) ==
    /\ ~crashed
    /\ LET shares == SubmitSharesStandard(c, q, j)
       IN  last' = [op |-> "on_submit_shares", d |-> d, arg |-> shares,
                    channel |-> << >>, ret |-> on_submit_shares(dispatchers[d], shares)]
    /\ UNCHANGED <<ids, dispatchers, issued, crashed, groupVars, extVars>>

(***************************************************************************)
(* group_channel_logic.rs: UpstreamWithGroups.                             *)
(***************************************************************************)
\* Extranonce::new
ExtranonceNew == 0

\* Extranonce::next: the counter is advanced and its new value is the prefix.
ExtranonceNext(e) == [self |-> e + 1, ret |-> e + 1]

\* target_from_hr, kept symbolic.
target_from_hr(downstream_hr) == <<"target_from_hr", downstream_hr>>

\* UpstreamWithGroups::new
UpstreamWithGroupsNew ==
    [groups |-> EmptyMap, ids |-> IdNew, extranonces |-> ExtranonceNew]

\* UpstreamWithGroups::new_group_channel
new_group_channel(self) ==
    LET g_id == IdNext(self.ids)
    IN  [self |-> [self EXCEPT !.ids = g_id,
                               !.groups = MapInsert(self.groups, g_id, IdNew)],
         ret |-> g_id]

\* Faulty variant of new_standard_channel: the prefix is taken from a copy of the
\* extranonce counter, so the counter of the upstream is not advanced.
new_standard_channel_CounterCopied(self, request_id, downstream_hr, group_id) ==
    IF group_id \notin DOMAIN self.groups
    THEN [self |-> self, ret |-> [kind |-> "Err", error |-> "NoGroupsFound"]]
    ELSE LET channel_id == IdNext(self.groups[group_id])
             prefix == ExtranonceNext(self.extranonces)
         IN  [self |-> [self EXCEPT !.groups[group_id] = channel_id],
              ret |-> [kind |-> "Ok",
                       request_id |-> request_id,
                       channel_id |-> channel_id,
                       target |-> target_from_hr(downstream_hr),
                       extranonce_prefix |-> prefix.ret,
                       group_channel_id |-> group_id]]

\* UpstreamWithGroups::new_standard_channel
new_standard_channel(self, request_id, downstream_hr, group_id) ==
    IF group_id \notin DOMAIN self.groups
    THEN [self |-> self, ret |-> [kind |-> "Err", error |-> "NoGroupsFound"]]
    ELSE LET channel_id == IdNext(self.groups[group_id])
             prefix == ExtranonceNext(self.extranonces)
         IN  [self |-> [self EXCEPT !.groups[group_id] = channel_id,
                                    !.extranonces = prefix.self],
              ret |-> [kind |-> "Ok",
                       request_id |-> request_id,
                       channel_id |-> channel_id,
                       target |-> target_from_hr(downstream_hr),
                       extranonce_prefix |-> prefix.ret,
                       group_channel_id |-> group_id]]

UpstreamWithGroups == [groups |-> groups, ids |-> group_ids, extranonces |-> extranonces]

UpstreamNewGroupChannel ==
    /\ group_ids < MaxGroups
    /\ LET r == new_group_channel(UpstreamWithGroups)
       IN  /\ groups' = r.self.groups
           /\ group_ids' = r.self.ids
           /\ extranonces' = r.self.extranonces
           /\ group_ret' = [op |-> "new_group_channel", ret |-> r.ret]
    /\ UNCHANGED <<opened, dispVars, extVars>>

UpstreamNewStandardChannel(request_id, downstream_hr, group_id) ==
    /\ extranonces < MaxChannels
    /\ LET r == new_standard_channel(UpstreamWithGroups, request_id, downstream_hr, group_id)
       IN  /\ groups' = r.self.groups
           /\ group_ids' = r.self.ids
           /\ extranonces' = r.self.extranonces
           /\ group_ret' = [op |-> "new_standard_channel", ret |-> r.ret]
           /\ opened' = IF r.ret.kind = "Ok" THEN Append(opened, r.ret) ELSE opened
    /\ UNCHANGED <<dispVars, extVars>>

(***************************************************************************)
(* selectors.rs: ProxyDownstreamMiningSelector.                            *)
(***************************************************************************)
\* The Arc<Mutex<Down>> handles of the connected downstreams.
Downstreams == {"downA", "downB"}
\* g_channel_id values of OpenStandardMiningChannelSuccess.
GroupChannelIds == {1, 2}
\* Cap on the length of one Vec of channel_id_to_downstreams.
MaxDownstreamsInChannel == 2

\* ProxyDownstreamMiningSelector::new
ProxyDownstreamMiningSelectorNew ==
    [request_id_to_remotes |-> EmptyMap,
     channel_id_to_downstreams |-> EmptyMap,
     channel_id_to_downstream |-> EmptyMap]

\* ProxyDownstreamMiningSelector::on_open_standard_channel_request
on_open_standard_channel_request(self, request_id, downstream) ==
    [self EXCEPT !.request_id_to_remotes = MapInsert(@, request_id, downstream)]

\* Faulty variant of on_open_standard_channel_success: the downstream is put at
\* the front of the Vec of its group.
on_open_standard_channel_success_PushFront(self, request_id, g_channel_id, channel_id) ==
    IF request_id \notin DOMAIN self.request_id_to_remotes
    THEN [self |-> self, ret |-> "panic"]
    ELSE LET downstream == self.request_id_to_remotes[request_id]
         IN  [self |-> [self EXCEPT
                           !.request_id_to_remotes = MapRemove(@, request_id),
                           !.channel_id_to_downstream = MapInsert(@, channel_id, downstream),
                           !.channel_id_to_downstreams =
                               IF g_channel_id \notin DOMAIN @
                               THEN MapInsert(@, g_channel_id, <<downstream>>)
                               ELSE MapInsert(@, g_channel_id, <<downstream>> \o @[g_channel_id])],
              ret |-> downstream]

\* ProxyDownstreamMiningSelector::on_open_standard_channel_success.  The unwrap
\* of request_id_to_remotes.remove panics when the request id is not pending.
on_open_standard_channel_success(self, request_id, g_channel_id, channel_id) ==
    IF request_id \notin DOMAIN self.request_id_to_remotes
    THEN [self |-> self, ret |-> "panic"]
    ELSE LET downstream == self.request_id_to_remotes[request_id]
         IN  [self |-> [self EXCEPT
                           !.request_id_to_remotes = MapRemove(@, request_id),
                           !.channel_id_to_downstream = MapInsert(@, channel_id, downstream),
                           !.channel_id_to_downstreams =
                               IF g_channel_id \notin DOMAIN @
                               THEN MapInsert(@, g_channel_id, <<downstream>>)
                               ELSE MapInsert(@, g_channel_id, Append(@[g_channel_id], downstream))],
              ret |-> downstream]

\* ProxyDownstreamMiningSelector::get_downstreams_in_channel (unwrap of get).
get_downstreams_in_channel(self, channel_id) ==
    IF channel_id \in DOMAIN self.channel_id_to_downstreams
    THEN self.channel_id_to_downstreams[channel_id]
    ELSE "panic"

\* ProxyDownstreamMiningSelector::downstream_from_channel_id
downstream_from_channel_id(self, channel_id) ==
    IF channel_id \in DOMAIN self.channel_id_to_downstream
    THEN [kind |-> "Some", value |-> self.channel_id_to_downstream[channel_id]]
    ELSE [kind |-> "None"]

SelectorOnOpenStandardChannelRequest(request_id, downstream) ==
    /\ sel_last.ret # "panic"
    /\ selector' = on_open_standard_channel_request(selector, request_id, downstream)
    /\ sel_last' = [op |-> "on_open_standard_channel_request", request_id |-> request_id,
                    g_channel_id |-> 0, channel_id |-> 0, ret |-> "()"]
    /\ UNCHANGED selOthers

SelectorOnOpenStandardChannelSuccess(request_id, g_channel_id, channel_id) ==
    /\ sel_last.ret # "panic"
    /\ IF g_channel_id \in DOMAIN selector.channel_id_to_downstreams
       THEN Len(selector.channel_id_to_downstreams[g_channel_id]) < MaxDownstreamsInChannel
       ELSE TRUE
    /\ LET r == on_open_standard_channel_success(selector, request_id, g_channel_id, channel_id)
       IN  /\ selector' = r.self
           /\ sel_last' = [op |-> "on_open_standard_channel_success",
                           request_id |-> request_id, g_channel_id |-> g_channel_id,
                           channel_id |-> channel_id, ret |-> r.ret]
    /\ UNCHANGED selOthers

(***************************************************************************)
(* selectors.rs: GeneralMiningSelector; common_properties.rs: is_pairable. *)
(***************************************************************************)
\* Cap on the number of upstreams handed to GeneralMiningSelector::new.
MaxUpstreams == 2
\* get_version() and get_flags() values of the upstream nodes.
UpstreamVersions == {1, 2}
UpstreamFlags == {1, 3}
\* min_v / max_v of PairSettings.
PairVersions == 0..3
\* protocol and flags of PairSettings.
PairProtocols == {"MiningProtocol"}
PairFlags == {0}
\* Number of flag bits that the sample flag values use.
FlagBits == 2

\* x | y on the low FlagBits bits, bit by bit.
RECURSIVE BitOrN(_, _, _)
BitOrN(x, y, n) ==
    IF n = 0 THEN 0
    ELSE (IF x % 2 = 1 \/ y % 2 = 1 THEN 1 ELSE 0) + 2 * BitOrN(x \div 2, y \div 2, n - 1)

\* Faulty variant of BitOr: the flags are added, as "the sum of all the accepted
\* flags" would be.
BitOrSum(x, y) == x + y

\* supported_flags |= node.get_flags()
BitOr(x, y) == BitOrN(x, y, FlagBits)

\* An upstream node as the selector sees it: get_id, get_version, get_flags.
UpstreamNode(id, version, flags) == [id |-> id, version |-> version, flags |-> flags]

\* The upstream lists that GeneralMiningSelector::new can be given; the node
\* at position i has id i.
UpstreamLists ==
    UNION {{[i \in 1..n |-> UpstreamNode(i, vf[i][1], vf[i][2])] :
               vf \in [1..n -> UpstreamVersions \X UpstreamFlags]} : n \in 0..MaxUpstreams}

\* PairSettings { protocol, min_v, max_v, flags }
PairSettings(protocol, min_v, max_v, flags) ==
    [protocol |-> protocol, min_v |-> min_v, max_v |-> max_v, flags |-> flags]

\* SetupConnection::check_flags(protocol, flags, available_flags).  The
\* function is not part of the repository: passing is the set of
\* available_flags values for which it answers true for this protocol and
\* these flags.
check_flags(passing, protocol, flags, available_flags) == available_flags \in passing

\* IsUpstream::is_pairable
is_pairable(node, pair_settings, passing) ==
    LET check_version == /\ node.version >= pair_settings.min_v
                         /\ node.version <= pair_settings.max_v
        flags_ok == check_flags(passing, pair_settings.protocol, pair_settings.flags,
                                node.flags)
    IN  check_version /\ flags_ok

\* GeneralMiningSelector::new
GeneralMiningSelectorNew(upstream_list) ==
    [upstreams |-> upstream_list,
     id_to_upstream |-> [id \in {upstream_list[i].id : i \in DOMAIN upstream_list} |->
                            CHOOSE i \in DOMAIN upstream_list : upstream_list[i].id = id]]

\* The loop of on_setup_connection over self.upstreams[i..]: acc holds
\* supported_upstreams and supported_flags.
RECURSIVE SetupLoop(_, _, _, _, _)
SetupLoop(upstream_list, i, pair_settings, passing, acc) ==
    IF i > Len(upstream_list) THEN acc
    ELSE LET node == upstream_list[i]
         IN  SetupLoop(upstream_list, i + 1, pair_settings, passing,
                       IF is_pairable(node, pair_settings, passing)
                       THEN [supported_flags |-> BitOr(acc.supported_flags, node.flags),
                             supported_upstreams |-> Append(acc.supported_upstreams, node)]
                       ELSE acc)

\* GeneralMiningSelector::on_setup_connection
on_setup_connection(self, pair_settings, passing) ==
    LET acc == SetupLoop(self.upstreams, 1, pair_settings, passing,
                         [supported_flags |-> 0, supported_upstreams |-> << >>])
    IN  IF acc.supported_upstreams # << >>
        THEN [self |-> self, ret |-> [kind |-> "Ok", upstreams |-> acc.supported_upstreams,
                                      flags |-> acc.supported_flags]]
        ELSE [self |-> self, ret |-> [kind |-> "Err", error |-> "NoPairableUpstream"]]

UpstreamSelectorNew(upstream_list) ==
    /\ upstream_selector' = GeneralMiningSelectorNew(upstream_list)
    /\ pair_last' = [op |-> "new", pair_settings |-> << >>, passing |-> {}, ret |-> << >>]
    /\ UNCHANGED upselOthers

UpstreamSelectorOnSetupConnection(pair_settings, passing) ==
    LET r == on_setup_connection(upstream_selector, pair_settings, passing)
    IN  /\ upstream_selector' = r.self
        /\ pair_last' = [op |-> "on_setup_connection", pair_settings |-> pair_settings,
                         passing |-> passing, ret |-> r.ret]
        /\ UNCHANGED upselOthers

(***************************************************************************)
(* common_properties.rs: RequestIdMapper.                                  *)
(***************************************************************************)
\* Cap on the number of upstream request ids assigned by one mapper; it keeps
\* next_id far below u32::MAX.
MaxRequests == 4

\* RequestIdMapper::new
RequestIdMapperNew == [request_ids_map |-> EmptyMap, next_id |-> 0]

\* Faulty variant of on_open_channel: next_id is not advanced.
on_open_channel_NoIncrement(self, id) ==
    LET new_id == self.next_id
    IN  [self |-> [self EXCEPT !.request_ids_map = MapInsert(@, new_id, id)],
         ret |-> new_id]

\* RequestIdMapper::on_open_channel
on_open_channel(self, id) ==
    LET new_id == self.next_id
    IN  [self |-> [self EXCEPT !.next_id = @ + 1,
                               !.request_ids_map = MapInsert(@, new_id, id)],
         ret |-> new_id]

\* RequestIdMapper::remove.  The unwrap panics when upstream_id is not a key.
remove(self, upstream_id) ==
    IF upstream_id \notin DOMAIN self.request_ids_map
    THEN [self |-> self, ret |-> [kind |-> "panic"]]
    ELSE [self |-> [self EXCEPT !.request_ids_map = MapRemove(@, upstream_id)],
          ret |-> [kind |-> "Ok", value |-> self.request_ids_map[upstream_id]]]

MapperOnOpenChannel(id) ==
    /\ mapper_last.ret.kind # "panic"
    /\ mapper.next_id < MaxRequests
    /\ LET r == on_open_channel(mapper, id)
       IN  /\ mapper' = r.self
           /\ mapper_last' = [op |-> "on_open_channel", arg |-> id,
                               ret |-> [kind |-> "Ok", value |-> r.ret]]
           /\ assigned' = Append(assigned, [downstream_id |-> id, upstream_id |-> r.ret])
    /\ UNCHANGED mapperOthers

MapperRemove(upstream_id) ==
    /\ mapper_last.ret.kind # "panic"
    /\ LET r == remove(mapper, upstream_id)
       IN  /\ mapper' = r.self
           /\ mapper_last' = [op |-> "remove", arg |-> upstream_id, ret |-> r.ret]
    /\ UNCHANGED <<assigned, mapperOthers>>

(***************************************************************************)
(* noise-sv2/src/lib.rs: Initiator, Responder, TransportMode.  The snow    *)
(* handshake state and the ed25519 signatures are symbolic: a handshake    *)
(* message authenticates under the hash of everything both sides mixed in, *)
(* a signature verifies under the key that made it over the data it was    *)
(* made for.                                                               *)
(***************************************************************************)
\* EncryptionAlgorithm
Algorithms == {"ChaChaPoly", "AesGcm"}
\* Public keys of the certificate authorities; an authority signs with the
\* secret key of the same name.
AuthorityKeys == {"authority1", "authority2"}
\* Static keypairs of responders, named by their public key.
StaticKeys == {"static1", "static2"}
\* valid_from and not_valid_after of the certificates, and the clock values
\* at which a certificate is validated.
CertificateValidity == [valid_from |-> 10, not_valid_after |-> 12]
Times == 9..12
\* SNOW_TAGLEN
SNOW_TAGLEN == 16
\* Payloads written in transport mode, as byte strings.
Payloads == {<<7>>, <<7, 8>>}
\* Cap on the number of messages written in one direction.
MaxMessages == 2
\* Largest payload length for which the size hints are compared.
MaxPayloadLen == 2

\* Option
None == [kind |-> "None"]
Some(x) == [kind |-> "Some", value |-> x]

\* The algorithm lists a NegotiationMessage can carry.
AlgorithmLists ==
    {<< >>} \cup {<<a>> : a \in Algorithms} \cup {<<a, b>> : a, b \in Algorithms}

\* Tag of an algorithm in the serialized forms.
AlgoTag(a) == IF a = "ChaChaPoly" THEN 1 ELSE 2

\* Prologue::serialize_to_buf: count(possible_algos) || tags || chosen tag.
PrologueSerialize(possible_algos, chosen_algo) ==
    <<Len(possible_algos)>>
        \o [i \in 1..Len(possible_algos) |-> AlgoTag(possible_algos[i])]
        \o <<AlgoTag(chosen_algo)>>

\* Faulty variant of PrologueSerialize: the list is left out.
PrologueSerializeChosenOnly(possible_algos, chosen_algo) == <<AlgoTag(chosen_algo)>>

\* SignedPart { header, pubkey, authority_public_key }
SignedPart(valid_from, not_valid_after, static_public_key, authority_public_key) ==
    [version |-> 0, valid_from |-> valid_from, not_valid_after |-> not_valid_after,
     pubkey |-> static_public_key, authority_public_key |-> authority_public_key]

\* Authority::new_cert: the SignatureNoiseMessage for static_public_key, signed
\* by authority.
SignatureNoiseMessage(authority, static_public_key, valid_from, not_valid_after) ==
    [version |-> 0, valid_from |-> valid_from, not_valid_after |-> not_valid_after,
     signature |-> [signer |-> authority,
                    signed |-> SignedPart(valid_from, not_valid_after, static_public_key,
                                          authority)]]

\* The signature noise messages a Responder can be built with.
SignatureNoiseMessages ==
    {SignatureNoiseMessage(a, k, CertificateValidity.valid_from,
                           CertificateValidity.not_valid_after) :
        a \in AuthorityKeys, k \in StaticKeys}

\* Faulty variant of CertificateValidate: the end of the validity is not looked at.
CertificateValidateNoExpiry(signature_noise_message, remote_static_key, authority_public_key,
                            now) ==
    LET signed_part == SignedPart(signature_noise_message.valid_from,
                                  signature_noise_message.not_valid_after,
                                  remote_static_key, authority_public_key)
    IN  IF \/ signature_noise_message.signature.signer # authority_public_key
           \/ signature_noise_message.signature.signed # signed_part
        THEN "InvalidCertificate"
        ELSE IF now < signature_noise_message.valid_from
        THEN "InvalidCertificate"
        ELSE "Ok"

\* Certificate::from_noise_message followed by Certificate::validate at time
\* now: the signature is verified over the SignedPart rebuilt from the header,
\* the remote static key and the configured authority key.
CertificateValidate(signature_noise_message, remote_static_key, authority_public_key, now) ==
    LET signed_part == SignedPart(signature_noise_message.valid_from,
                                  signature_noise_message.not_valid_after,
                                  remote_static_key, authority_public_key)
    IN  IF \/ signature_noise_message.signature.signer # authority_public_key
           \/ signature_noise_message.signature.signed # signed_part
        THEN "InvalidCertificate"
        ELSE IF \/ now < signature_noise_message.valid_from
                \/ now >= signature_noise_message.not_valid_after
        THEN "InvalidCertificate"
        ELSE "Ok"

\* snow: Builder::build_initiator / build_responder.  s is the local static
\* public key of a responder.
HandshakeState(role, cipher, prologue, s) ==
    [role |-> role, cipher |-> cipher, prologue |-> prologue, s |-> s,
     e |-> "none", re |-> "none", rs |-> "none", finished |-> FALSE]

\* snow: the handshake hash after <- e: what both sides mixed in so far.
HandshakeHash(cipher, prologue, initiator_e, responder_e) ==
    [cipher |-> cipher, prologue |-> prologue, ie |-> initiator_e, re |-> responder_e]

\* snow: HandshakeState::write_message of the initiator (-> e).
InitiatorWriteMessage(hs) ==
    [hs |-> [hs EXCEPT !.e = "e_initiator"], msg |-> [kind |-> "e", e |-> "e_initiator"]]

\* snow: HandshakeState::read_message of the responder (-> e).
ResponderReadMessage(hs, msg) ==
    IF msg.kind = "e"
    THEN [kind |-> "Ok", hs |-> [hs EXCEPT !.re = msg.e]]
    ELSE [kind |-> "Err", hs |-> hs]

\* snow: HandshakeState::write_message of the responder (<- e, ee, s, es and
\* the payload), sealed under the responder's handshake hash.
ResponderWriteMessage(hs, payload) ==
    [hs |-> [hs EXCEPT !.e = "e_responder", !.finished = TRUE],
     msg |-> [kind |-> "e_ee_s_es", e |-> "e_responder", s |-> hs.s, payload |-> payload,
              h |-> HandshakeHash(hs.cipher, hs.prologue, hs.re, "e_responder")]]

\* snow: HandshakeState::read_message of the initiator (<- e, ee, s, es): it
\* fails unless the message was sealed under the initiator's own hash.
InitiatorReadMessage(hs, msg) ==
    IF /\ msg.kind = "e_ee_s_es"
       /\ msg.h = HandshakeHash(hs.cipher, hs.prologue, hs.e, msg.e)
    THEN [kind |-> "Ok", payload |-> msg.payload,
          hs |-> [hs EXCEPT !.re = msg.e, !.rs = msg.s, !.finished = TRUE]]
    ELSE [kind |-> "Err", payload |-> << >>, hs |-> hs]

\* StepResult and Err values of step.
ExpectReply(msg) == [kind |-> "ExpectReply", msg |-> msg]
NoMoreReply(msg) == [kind |-> "NoMoreReply", msg |-> msg]
Done == [kind |-> "Done", msg |-> None]
Err(e) == [kind |-> "Err", msg |-> None, error |-> e]

\* The entry of hs_log for a step of who at stage that returned ret.
StepLogged(who, stage, ret, now) ==
    [who |-> who, stage |-> stage, ret |-> ret.kind,
     error |-> IF ret.kind = "Err" THEN ret.error ELSE "", now |-> now]

\* Initiator::new
InitiatorNew(authority_public_key) ==
    [stage |-> 0,
     handshake_state |-> HandshakeState("initiator", "default", << >>, "none"),
     algorithms |-> <<"ChaChaPoly", "AesGcm">>,
     chosen_algorithm |-> None,
     authority_public_key |-> authority_public_key]

\* Faulty variant of InitiatorVerifyRemoteStaticKeySignature: a certificate
\* past its not_valid_after is accepted.
InitiatorVerifyNoExpiry(self, signature_noise_message, now) ==
    IF self.handshake_state.rs = "none"
    THEN "SnowNoRemoteStaticKey"
    ELSE CertificateValidateNoExpiry(signature_noise_message, self.handshake_state.rs,
                                     self.authority_public_key, now)

\* Initiator::verify_remote_static_key_signature
InitiatorVerifyRemoteStaticKeySignature(self, signature_noise_message, now) ==
    IF self.handshake_state.rs = "none"
    THEN "SnowNoRemoteStaticKey"
    ELSE CertificateValidate(signature_noise_message, self.handshake_state.rs,
                             self.authority_public_key, now)

\* Faulty variant of InitiatorUpdateHandshakeState: the prologue holds the
\* chosen algorithm only.
InitiatorUpdateHandshakeStateChosenOnly(self) ==
    LET chosen_algo == self.chosen_algorithm.value
    IN  [self EXCEPT !.handshake_state =
            HandshakeState("initiator", chosen_algo,
                           PrologueSerializeChosenOnly(self.algorithms, chosen_algo), "none")]

\* Initiator::update_handshake_state
InitiatorUpdateHandshakeState(self) ==
    LET chosen_algo == self.chosen_algorithm.value
    IN  [self EXCEPT !.handshake_state =
            HandshakeState("initiator", chosen_algo,
                           PrologueSerialize(self.algorithms, chosen_algo), "none")]

\* impl Step for Initiator: step(in_msg), with the clock read by the
\* certificate validation.  On Err the stage is not advanced.
InitiatorStepFn(self, in_msg, now) ==
    CASE self.stage = 0 ->
            [self |-> [self EXCEPT !.stage = 1],
             ret |-> ExpectReply([kind |-> "negotiation", algos |-> self.algorithms])]
      [] self.stage = 1 ->
            IF in_msg = None
            THEN [self |-> self, ret |-> Err("ExpectedIncomingHandshakeMessage")]
            ELSE IF in_msg.value.kind # "chosen"
            THEN [self |-> self, ret |-> Err("EncryptionAlgorithmInvalid")]
            ELSE LET chosen == [self EXCEPT !.chosen_algorithm = Some(in_msg.value.algo)]
                     w == InitiatorWriteMessage(InitiatorUpdateHandshakeState(chosen).handshake_state)
                 IN  [self |-> [chosen EXCEPT !.handshake_state = w.hs, !.stage = 2],
                      ret |-> ExpectReply(w.msg)]
      [] self.stage = 2 ->
            IF in_msg = None
            THEN [self |-> self, ret |-> Err("ExpectedIncomingHandshakeMessage")]
            ELSE LET r == InitiatorReadMessage(self.handshake_state, in_msg.value)
                     read == [self EXCEPT !.handshake_state = r.hs]
                 IN  IF r.kind = "Err"
                     THEN [self |-> self, ret |-> Err("SnowError")]
                     ELSE LET v == InitiatorVerifyRemoteStaticKeySignature(read, r.payload, now)
                          IN  IF v # "Ok"
                              THEN [self |-> read, ret |-> Err(v)]
                              ELSE [self |-> [read EXCEPT !.stage = 3], ret |-> Done]
      [] OTHER -> [self |-> self, ret |-> Err("HSInitiatorStepNotFound")]

\* Responder::new
ResponderNew(static_keypair, signature_noise_message) ==
    [stage |-> 0,
     static_keypair |-> static_keypair,
     handshake_state |-> None,
     requested_algorithms |-> << >>,
     chosen_algorithm |-> None,
     signature_noise_message |-> signature_noise_message,
     algorithms |-> <<"ChaChaPoly", "AesGcm">>]

\* Faulty variant of ResponderUpdateHandshakeState: the handshake state keeps
\* the default parameters instead of the chosen cipher.
ResponderUpdateHandshakeStateDefaultParams(self) ==
    LET chosen_algo == self.chosen_algorithm.value
    IN  [self EXCEPT !.handshake_state =
            Some(HandshakeState("responder", "default",
                                PrologueSerialize(self.requested_algorithms, chosen_algo),
                                self.static_keypair))]

\* Responder::update_handshake_state
ResponderUpdateHandshakeState(self) ==
    LET chosen_algo == self.chosen_algorithm.value
    IN  [self EXCEPT !.handshake_state =
            Some(HandshakeState("responder", chosen_algo,
                                PrologueSerialize(self.requested_algorithms, chosen_algo),
                                self.static_keypair))]

\* Faulty variant of FindAlgorithm: the first entry of algos that the
\* responder supports.
FindAlgorithmRequestedOrder(own, algos) ==
    LET hits == {i \in DOMAIN algos : \E k \in DOMAIN own : own[k] = algos[i]}
    IN  IF hits = {} THEN None
        ELSE Some(algos[CHOOSE i \in hits : \A k \in hits : i <= k])

\* self.algorithms.iter().find(|&a| algos.contains(a)): the first entry of the
\* responder's own list that occurs in algos.
FindAlgorithm(own, algos) ==
    LET hits == {i \in DOMAIN own : \E k \in DOMAIN algos : algos[k] = own[i]}
    IN  IF hits = {} THEN None
        ELSE Some(own[CHOOSE i \in hits : \A k \in hits : i <= k])

\* Stage 1 of Responder::step: <- e is read, -> e, ee, s, es and the signature
\* noise message are written.  Without a handshake state the expect panics.
ResponderStage1(self, in_msg) ==
    IF in_msg = None
    THEN [self |-> self, ret |-> Err("ExpectedIncomingHandshakeMessage")]
    ELSE IF self.handshake_state = None
    THEN [self |-> self, ret |-> [kind |-> "panic", msg |-> None]]
    ELSE LET r == ResponderReadMessage(self.handshake_state.value, in_msg.value)
         IN  IF r.kind = "Err"
             THEN [self |-> self, ret |-> Err("SnowError")]
             ELSE LET w == ResponderWriteMessage(r.hs, self.signature_noise_message)
                  IN  [self |-> [self EXCEPT !.handshake_state = Some(w.hs), !.stage = @ + 1],
                       ret |-> NoMoreReply(w.msg)]

\* impl Step for Responder: step(in_msg).
ResponderStepFn(self, in_msg) ==
    CASE self.stage = 0 ->
            IF in_msg = None
            THEN [self |-> self, ret |-> Err("ExpectedIncomingHandshakeMessage")]
            ELSE IF in_msg.value.kind = "negotiation"
            THEN LET algos == in_msg.value.algos
                     found == FindAlgorithm(self.algorithms, algos)
                 IN  IF found = None
                     THEN [self |-> self, ret |-> Err("EncryptionAlgorithmNotFound")]
                     ELSE [self |-> [ResponderUpdateHandshakeState(
                                        [self EXCEPT !.requested_algorithms = algos,
                                                     !.chosen_algorithm = found])
                                     EXCEPT !.stage = 1],
                           ret |-> ExpectReply([kind |-> "chosen", algo |-> found.value])]
            ELSE LET inner == ResponderStage1([self EXCEPT !.stage = 1], in_msg)
                 IN  IF inner.ret.kind \in {"Err", "panic"}
                     THEN inner
                     ELSE [self |-> [inner.self EXCEPT !.stage = @ + 1], ret |-> inner.ret]
      [] self.stage = 1 -> ResponderStage1(self, in_msg)
      [] self.stage = 2 -> [self |-> [self EXCEPT !.stage = 3], ret |-> Done]
      [] OTHER -> [self |-> self, ret |-> Err("HSResponderStepNotFound")]

\* snow: HandshakeState::into_transport_mode.  It fails while the handshake
\* is not finished; the two cipher states are derived from everything both
\* sides mixed in.
IntoTransportMode(hs) ==
    IF ~hs.finished
    THEN [kind |-> "Err"]
    ELSE LET ck == IF hs.role = "initiator"
                   THEN [h |-> HandshakeHash(hs.cipher, hs.prologue, hs.e, hs.re), s |-> hs.rs]
                   ELSE [h |-> HandshakeHash(hs.cipher, hs.prologue, hs.re, hs.e), s |-> hs.s]
         IN  [kind |-> "Ok",
              value |-> [send_key |-> IF hs.role = "initiator"
                                      THEN <<"initiator_to_responder", ck>>
                                      ELSE <<"responder_to_initiator", ck>>,
                         recv_key |-> IF hs.role = "initiator"
                                      THEN <<"responder_to_initiator", ck>>
                                      ELSE <<"initiator_to_responder", ck>>,
                         send_nonce |-> 0,
                         recv_nonce |-> 0]]

\* connect: Initiator::from_raw_k(authority_public_key).
NoiseConnect(authority_public_key) ==
    /\ i_status = "absent"
    /\ initiator' = InitiatorNew(authority_public_key)
    /\ i_status' = "handshake"
    /\ UNCHANGED <<responder, r_status, net_to_r, net_to_i, hs_log, altered, trVars,
                   noiseOthers>>

\* listen: a Responder with its static keypair and signature noise message.
NoiseAccept(static_keypair, signature_noise_message) ==
    /\ r_status = "absent"
    /\ responder' = ResponderNew(static_keypair, signature_noise_message)
    /\ r_status' = "handshake"
    /\ UNCHANGED <<initiator, i_status, net_to_r, net_to_i, hs_log, altered, trVars,
                   noiseOthers>>

\* A step of the task that drives the Initiator (initialize_as_downstream,
\* perform_handshake): step(None) first, then one step per message received;
\* an Err is unwrapped and ends the task.
InitiatorCanStep ==
    /\ i_status = "handshake"
    /\ initiator.stage = 0 \/ net_to_i # None

InitiatorStep(now) ==
    /\ InitiatorCanStep
    /\ LET in_msg == IF initiator.stage = 0 THEN None ELSE net_to_i
           r == InitiatorStepFn(initiator, in_msg, now)
       IN  /\ initiator' = r.self
           /\ net_to_i' = IF initiator.stage = 0 THEN net_to_i ELSE None
           /\ net_to_r' = IF r.ret.kind \in {"ExpectReply", "NoMoreReply"}
                          THEN Some(r.ret.msg) ELSE net_to_r
           /\ i_status' = CASE r.ret.kind = "Err" -> "panicked"
                            [] r.ret.kind = "Done" -> "done"
                            [] OTHER -> "handshake"
           /\ hs_log' = Append(hs_log, StepLogged("initiator", initiator.stage, r.ret,
                                                  IF initiator.stage = 2 THEN now ELSE 0))
    /\ UNCHANGED <<responder, r_status, altered, trVars, noiseOthers>>

\* A step of the task that drives the Responder (initialize_as_upstream): one
\* step per message received; an Err is unwrapped and ends the task.
ResponderCanStep ==
    /\ r_status = "handshake"
    /\ responder.stage < 2
    /\ net_to_r # None

ResponderStep ==
    /\ ResponderCanStep
    /\ LET r == ResponderStepFn(responder, net_to_r)
       IN  /\ responder' = r.self
           /\ net_to_r' = None
           /\ net_to_i' = IF r.ret.kind \in {"ExpectReply", "NoMoreReply"}
                          THEN Some(r.ret.msg) ELSE net_to_i
           /\ r_status' = IF r.ret.kind \in {"Err", "panic"} THEN "panicked" ELSE "handshake"
           /\ hs_log' = Append(hs_log, StepLogged("responder", responder.stage, r.ret, 0))
    /\ UNCHANGED <<initiator, i_status, altered, trVars, noiseOthers>>

\* The network replaces the algorithm list of the NegotiationMessage in flight.
NetAlterNegotiation(algos) ==
    /\ net_to_r # None
    /\ net_to_r.value.kind = "negotiation"
    /\ net_to_r.value.algos # algos
    /\ net_to_r' = Some([kind |-> "negotiation", algos |-> algos])
    /\ altered' = [altered EXCEPT !.list = (algos # initiator.algorithms)]
    /\ UNCHANGED <<initiator, responder, i_status, r_status, net_to_i, hs_log, trVars,
                   noiseOthers>>

\* The network replaces the NegotiationMessage in flight by bytes that do not
\* parse as one.
NetCorruptNegotiation ==
    /\ net_to_r # None
    /\ net_to_r.value.kind = "negotiation"
    /\ net_to_r' = Some([kind |-> "unparsable"])
    /\ altered' = [altered EXCEPT !.list = TRUE]
    /\ UNCHANGED <<initiator, responder, i_status, r_status, net_to_i, hs_log, trVars,
                   noiseOthers>>

\* The network replaces the chosen algorithm in flight.
NetAlterChosen(algo) ==
    /\ net_to_i # None
    /\ net_to_i.value.kind = "chosen"
    /\ net_to_i.value.algo # algo
    /\ net_to_i' = Some([kind |-> "chosen", algo |-> algo])
    /\ altered' = [altered EXCEPT !.choice = (Some(algo) # responder.chosen_algorithm)]
    /\ UNCHANGED <<initiator, responder, i_status, r_status, net_to_r, hs_log, trVars,
                   noiseOthers>>

\* After Done: initiator.into_handshake_state().into_transport_mode().
InitiatorIntoTransport ==
    /\ i_status = "done"
    /\ LET t == IntoTransportMode(initiator.handshake_state)
       IN  /\ i_transport' = IF t.kind = "Ok" THEN Some(t.value) ELSE i_transport
           /\ i_status' = IF t.kind = "Ok" THEN "transport" ELSE "panicked"
    /\ UNCHANGED <<initiator, responder, r_status, net_to_r, net_to_i, hs_log, altered,
                   r_transport, wire, tr_sent, tr_received, noiseOthers>>

\* After the responder's last message was sent:
\* responder.into_handshake_state().into_transport_mode().
ResponderIntoTransport ==
    /\ r_status = "handshake"
    /\ responder.stage = 2
    /\ LET t == IntoTransportMode(responder.handshake_state.value)
       IN  /\ r_transport' = IF t.kind = "Ok" THEN Some(t.value) ELSE r_transport
           /\ r_status' = IF t.kind = "Ok" THEN "transport" ELSE "panicked"
    /\ UNCHANGED <<initiator, responder, i_status, net_to_r, net_to_i, hs_log, altered,
                   i_transport, wire, tr_sent, tr_received, noiseOthers>>

\* snow: the bytes that the cipher state writes for plain under key at nonce:
\* one byte per byte of plain, then the SNOW_TAGLEN bytes of the tag.
Seal(key, nonce, plain) ==
    [i \in 1..Len(plain) |-> <<"ct", key, nonce, i, plain[i]>>]
        \o [i \in 1..SNOW_TAGLEN |-> <<"tag", key, nonce, plain>>]

\* snow: the plaintext of encrypted under key at nonce, or Err when the tag
\* does not verify.
Open(key, nonce, encrypted) ==
    IF Len(encrypted) < SNOW_TAGLEN
    THEN [kind |-> "Err", error |-> "SnowError"]
    ELSE LET n == Len(encrypted) - SNOW_TAGLEN
             plain == [i \in 1..n |-> encrypted[i][5]]
         IN  IF encrypted = Seal(key, nonce, plain)
             THEN [kind |-> "Ok", value |-> plain]
             ELSE [kind |-> "Err", error |-> "SnowError"]

\* TransportMode::size_hint_encrypt
size_hint_encrypt(payload_len) == payload_len + SNOW_TAGLEN

\* TransportMode::size_hint_decrypt (checked_sub)
size_hint_decrypt(encrypted_msg_len) ==
    IF encrypted_msg_len >= SNOW_TAGLEN
    THEN [kind |-> "Ok", value |-> encrypted_msg_len - SNOW_TAGLEN]
    ELSE [kind |-> "Err", error |-> "MessageToDecryptIsEmpty"]

\* Faulty variant of TransportModeWrite: the nonce is not advanced.
TransportModeWriteSameNonce(self, plain_msg, encrypted_len) ==
    IF encrypted_len < Len(plain_msg) + SNOW_TAGLEN
    THEN [self |-> self, ret |-> [kind |-> "Err", error |-> "SnowError"]]
    ELSE [self |-> self,
          ret |-> [kind |-> "Ok", value |-> Seal(self.send_key, self.send_nonce, plain_msg)]]

\* TransportMode::write into a buffer of encrypted_len bytes.
TransportModeWrite(self, plain_msg, encrypted_len) ==
    IF encrypted_len < Len(plain_msg) + SNOW_TAGLEN
    THEN [self |-> self, ret |-> [kind |-> "Err", error |-> "SnowError"]]
    ELSE [self |-> [self EXCEPT !.send_nonce = @ + 1],
          ret |-> [kind |-> "Ok", value |-> Seal(self.send_key, self.send_nonce, plain_msg)]]

\* TransportMode::read into a buffer of decrypted_len bytes.
TransportModeRead(self, encrypted_msg, decrypted_len) ==
    LET r == Open(self.recv_key, self.recv_nonce, encrypted_msg)
    IN  IF r.kind = "Err" \/ decrypted_len < Len(encrypted_msg) - SNOW_TAGLEN
        THEN [self |-> self, ret |-> [kind |-> "Err", error |-> "SnowError"]]
        ELSE [self |-> [self EXCEPT !.recv_nonce = @ + 1], ret |-> r]

\* The side that receives what side sends.
Peer(side) == IF side = "initiator" THEN "responder" ELSE "initiator"

\* The TransportMode installed on side.
TransportOf(side) == IF side = "initiator" THEN i_transport ELSE r_transport

\* side encrypts payload into a buffer of size_hint_encrypt bytes and sends it
\* (test_send_message, NoiseEncoder).
TransportWrite(side, payload) ==
    /\ TransportOf(side) # None
    /\ Len(tr_sent[side]) < MaxMessages
    /\ LET w == TransportModeWrite(TransportOf(side).value, payload,
                                   size_hint_encrypt(Len(payload)))
       IN  /\ w.ret.kind = "Ok"
           /\ i_transport' = IF side = "initiator" THEN Some(w.self) ELSE i_transport
           /\ r_transport' = IF side = "responder" THEN Some(w.self) ELSE r_transport
           /\ wire' = [wire EXCEPT ![side] = Append(@, w.ret.value)]
           /\ tr_sent' = [tr_sent EXCEPT ![side] =
                             Append(@, [payload |-> payload,
                                        encrypted_len |-> Len(w.ret.value)])]
    /\ UNCHANGED <<hsVars, tr_received, noiseOthers>>

\* side decrypts the oldest message sent by its peer into a buffer of
\* size_hint_decrypt bytes (test_send_message, NoiseDecoder).
TransportRead(side) ==
    /\ TransportOf(side) # None
    /\ wire[Peer(side)] # << >>
    /\ LET encrypted_msg == Head(wire[Peer(side)])
           hint == size_hint_decrypt(Len(encrypted_msg))
           r == TransportModeRead(TransportOf(side).value, encrypted_msg, hint.value)
       IN  /\ hint.kind = "Ok"
           /\ i_transport' = IF side = "initiator" THEN Some(r.self) ELSE i_transport
           /\ r_transport' = IF side = "responder" THEN Some(r.self) ELSE r_transport
           /\ wire' = [wire EXCEPT ![Peer(side)] = Tail(@)]
           /\ tr_received' = [tr_received EXCEPT ![Peer(side)] = Append(@, r.ret)]
    /\ UNCHANGED <<hsVars, tr_sent, noiseOthers>>

(***************************************************************************)
(* network-helpers/src/noise_connection_tokio.rs: the reader task spawned  *)
(* by Connection::new.                                                     *)
(***************************************************************************)
\* Cap on the number of iterations of the reader's loop.
MaxReads == 4
\* bounded(10): capacity of the incoming queue.
IncomingCapacity == 10
\* Frames that the decoder can complete.
Frames == {"frameA", "frameB"}

\* What decoder.next_frame can answer once read_exact filled the buffer: a
\* frame, or one of the errors of codec_sv2::Error.
DecoderResults ==
    {[kind |-> "Ok", frame |-> f] : f \in Frames}
        \cup {[kind |-> "Err", error |-> e] :
                 e \in {"MissingBytes", "UnexpectedNoiseState", "Todo"}}

\* What one iteration observes: read_exact failed, or it filled the buffer and
\* next_frame answered.
ReadOutcomes ==
    {[read |-> "Err"]} \cup {[read |-> "Ok", next_frame |-> d] : d \in DecoderResults}

\* One iteration of the reader's loop: a failed read panics the task; a frame
\* is sent to the incoming queue; an Err of next_frame is dropped by the
\* `if let Ok(x)` and the loop goes on.
ReaderIteration(outcome) ==
    /\ reader_status = "running"
    /\ Len(read_log) < MaxReads
    /\ read_log' = Append(read_log, outcome)
    /\ IF outcome.read = "Err"
       THEN /\ reader_status' = "panicked"
            /\ incoming' = incoming
       ELSE IF outcome.next_frame.kind = "Ok"
       THEN /\ Len(incoming) < IncomingCapacity
            /\ incoming' = Append(incoming, outcome.next_frame.frame)
            /\ reader_status' = reader_status
       ELSE /\ incoming' = incoming
            /\ reader_status' = reader_status
    /\ UNCHANGED connOthers

\* receiver_incoming.recv() by the task that consumes the frames.
ReceiverRecv ==
    /\ incoming # << >>
    /\ incoming' = Tail(incoming)
    /\ UNCHANGED <<reader_status, read_log, connOthers>>

(***************************************************************************)
(* network-helpers/src/noise_connection_tokio.rs: the two tasks spawned by *)
(* Connection::new and set_state, one step per suspension point.           *)
(***************************************************************************)
\* bounded(10): capacity of the outgoing queue.
OutgoingCapacity == 10
\* The frame that travels through the queues.
TaskFrame == "frame"

\* reader.read_exact(writable).await returned: Err panics the task, Ok leads
\* to cloned1.lock().await.
ReaderReadExact(ok) ==
    /\ reader_pc = "read_exact"
    /\ reader_pc' = IF ok THEN "lock" ELSE "panicked"
    /\ UNCHANGED <<lock_holder, writer_pc, incoming_q, outgoing_q, outgoing_open, state_set,
                   taskOthers>>

\* cloned1.lock().await returned the guard and decoder.next_frame answered:
\* with Ok(x) the task goes to sender_incoming.send(x).await, the guard still
\* alive; with Err the guard is dropped at the end of the arm.
ReaderLockNextFrame(frame_ok) ==
    /\ reader_pc = "lock"
    /\ lock_holder = "none"
    /\ IF frame_ok
       THEN /\ lock_holder' = "reader"
            /\ reader_pc' = "send"
       ELSE /\ lock_holder' = "none"
            /\ reader_pc' = "read_exact"
    /\ UNCHANGED <<writer_pc, incoming_q, outgoing_q, outgoing_open, state_set, taskOthers>>

\* sender_incoming.send(x).await returned: the queue had room. The guard is
\* dropped after it, at the end of the Ok(_) arm.
ReaderSend ==
    /\ reader_pc = "send"
    /\ Len(incoming_q) < IncomingCapacity
    /\ incoming_q' = Append(incoming_q, TaskFrame)
    /\ lock_holder' = "none"
    /\ reader_pc' = "read_exact"
    /\ UNCHANGED <<writer_pc, outgoing_q, outgoing_open, state_set, taskOthers>>

\* receiver_outgoing.recv().await returned: a frame, or Err once the queue is
\* closed and empty (writer.shutdown, panic).
WriterRecv ==
    /\ writer_pc = "recv"
    /\ IF outgoing_q # << >>
       THEN /\ outgoing_q' = Tail(outgoing_q)
            /\ writer_pc' = "lock"
       ELSE /\ ~outgoing_open
            /\ outgoing_q' = outgoing_q
            /\ writer_pc' = "panicked"
    /\ UNCHANGED <<lock_holder, reader_pc, incoming_q, outgoing_open, state_set, taskOthers>>

\* cloned2.lock().await returned the guard; encoder.encode; the task goes to
\* writer.write_all(b).await, the guard still alive.
WriterLock ==
    /\ writer_pc = "lock"
    /\ lock_holder = "none"
    /\ lock_holder' = "writer"
    /\ writer_pc' = "write_all"
    /\ UNCHANGED <<reader_pc, incoming_q, outgoing_q, outgoing_open, state_set, taskOthers>>

\* writer.write_all(b).await returned: Ok ends the iteration, Err shuts the
\* writer down and panics; the guard is dropped either way.
WriterWriteAll(ok) ==
    /\ writer_pc = "write_all"
    /\ lock_holder' = "none"
    /\ writer_pc' = IF ok THEN "recv" ELSE "panicked"
    /\ UNCHANGED <<reader_pc, incoming_q, outgoing_q, outgoing_open, state_set, taskOthers>>

\* set_state: loop { if let Ok(c) = self_.try_lock() { c.state = state; break } }.
SetState ==
    /\ ~state_set
    /\ lock_holder = "none"
    /\ state_set' = TRUE
    /\ UNCHANGED <<lock_holder, reader_pc, writer_pc, incoming_q, outgoing_q, outgoing_open,
                   taskOthers>>

\* The role sends a frame on sender_outgoing.
RoleSend ==
    /\ outgoing_open
    /\ Len(outgoing_q) < OutgoingCapacity
    /\ outgoing_q' = Append(outgoing_q, TaskFrame)
    /\ UNCHANGED <<lock_holder, reader_pc, writer_pc, incoming_q, outgoing_open, state_set,
                   taskOthers>>

\* The role drops its last Sender of the outgoing queue.
RoleDropSender ==
    /\ outgoing_open
    /\ outgoing_open' = FALSE
    /\ UNCHANGED <<lock_holder, reader_pc, writer_pc, incoming_q, outgoing_q, state_set,
                   taskOthers>>

\* The role receives a frame from receiver_incoming.
RoleRecv ==
    /\ incoming_q # << >>
    /\ incoming_q' = Tail(incoming_q)
    /\ UNCHANGED <<lock_holder, reader_pc, writer_pc, outgoing_q, outgoing_open, state_set,
                   taskOthers>>

(***************************************************************************)
(* roles-logic-sv2/src/utils.rs and general-utils-sv2/src/mutex.rs: Mutex. *)
(***************************************************************************)
\* Largest value that the closures store in the Mutex.
MaxMutexValue == 8
\* The closures handed to the Mutex: three that return and one that panics.
Thunks == {"incr", "reset", "read", "panic"}

\* Mutex::new(v).
MutexNew(v) == [value |-> v, poisoned |-> FALSE]

\* thunk(&mut *lock): the value left in the Mutex and what the closure returns.
ThunkApply(thunk, v) ==
    CASE thunk = "incr" -> [value |-> v + 1, ret |-> v + 1]
      [] thunk = "reset" -> [value |-> 0, ret |-> 0]
      [] OTHER -> [value |-> v, ret |-> v]

\* Mutex::safe_lock: self.0.lock()? returns the PoisonError of a poisoned
\* Mutex; a closure that panics unwinds through the guard and poisons it.
safe_lock(self, thunk) ==
    IF self.poisoned
    THEN [self |-> self, ret |-> [kind |-> "Err", error |-> "PoisonError"]]
    ELSE IF thunk = "panic"
    THEN [self |-> [self EXCEPT !.poisoned = TRUE], ret |-> [kind |-> "panic"]]
    ELSE [self |-> [self EXCEPT !.value = ThunkApply(thunk, self.value).value],
          ret |-> [kind |-> "Ok", value |-> ThunkApply(thunk, self.value).ret]]

\* Mutex::super_safe_lock: self.safe_lock(thunk).unwrap().
super_safe_lock(self, thunk) ==
    LET r == safe_lock(self, thunk)
    IN  IF r.ret.kind = "Err"
        THEN [self |-> r.self, ret |-> [kind |-> "panic"]]
        ELSE r

\* A task calls safe_lock.
MutexSafeLock(thunk) ==
    LET r == safe_lock(mutex, thunk)
    IN  /\ thunk = "incr" => mutex.value < MaxMutexValue
        /\ mutex' = r.self
        /\ mutex_last' = [op |-> "safe_lock", thunk |-> thunk,
                          poisoned |-> mutex.poisoned, ret |-> r.ret]
        /\ UNCHANGED mutexOthers

\* A task calls super_safe_lock.
MutexSuperSafeLock(thunk) ==
    LET r == super_safe_lock(mutex, thunk)
    IN  /\ thunk = "incr" => mutex.value < MaxMutexValue
        /\ mutex' = r.self
        /\ mutex_last' = [op |-> "super_safe_lock", thunk |-> thunk,
                          poisoned |-> mutex.poisoned, ret |-> r.ret]
        /\ UNCHANGED mutexOthers

(***************************************************************************)
(* mining-proxy/src/lib/upstream_mining.rs: the handlers of the upstream   *)
(* node for the job messages, and next, which sends what they return.      *)
(***************************************************************************)
\* Cap on the number of channels opened through the node.
MaxOpened == 2
\* Cap on the number of job messages the node handles.
MaxHandled == 2
\* The downstream nodes, and those that are header only (they get standard
\* channels; the others get the group channel).
ProxyDownstreams == {"downA", "downB"}
HeaderOnlyDownstreams == {"downA"}
is_header_only(d) == d \in HeaderOnlyDownstreams
\* Job ids and prev hashes the upstream sends.
UpstreamJobIds == {1, 2}
UpstreamPrevHashes == {<<45>>}

\* DownstreamChannel::Group(group_channel_id)
GroupChannel(g) == [kind |-> "Group", group_id |-> g]
\* DownstreamChannel::Standard(StandardChannel { .. })
StandardDownstreamChannel(g, c) == [kind |-> "Standard", channel |-> StandardChannel(g, c)]

\* DownstreamMiningNode::add_channel: the channel is pushed on the Vec kept
\* under its group channel id.
add_channel(d, channel) ==
    LET g == IF channel.kind = "Group" THEN channel.group_id ELSE channel.channel.group_id
    IN  [d EXCEPT !.channels =
            IF g \in DOMAIN @ THEN MapInsert(@, g, Append(@[g], channel))
            ELSE MapInsert(@, g, <<channel>>)]

\* DownstreamMiningNode::send: the frame is queued for the downstream.
DownstreamSend(downs, sent) ==
    [d \in DOMAIN downs |->
        [downs[d] EXCEPT !.inbox = @ \o SelectSeq(sent, LAMBDA x : x.to = d)]]

\* The directives a handler returns.
RelaySameMessage(to) == [kind |-> "RelaySameMessage", to |-> to]
RelayNewMessage(to, type, message) ==
    [kind |-> "RelayNewMessage", to |-> to, type |-> type, message |-> message]
Multiple(messages) == [kind |-> "Multiple", messages |-> messages]

\* UpstreamMiningNode::new
UpstreamMiningNodeNew ==
    [job_ids |-> IdNew,
     channel_id_to_job_dispatcher |-> EmptyMap,
     downstream_selector |-> ProxyDownstreamMiningSelectorNew]

\* Faulty variant of handle_open_standard_mining_channel_success: the
\* dispatcher of the group is built anew for every standard channel opened.
handle_open_standard_mining_channel_success_NewDispatcher(self, m, remote_name, remote) ==
    IF is_header_only(remote_name)
    THEN [self |-> [self EXCEPT !.channel_id_to_job_dispatcher =
                       MapInsert(@, m.group_channel_id, GroupChannelJobDispatcherNew)],
          remote |-> add_channel(remote,
                        StandardDownstreamChannel(m.group_channel_id, m.channel_id)),
          ret |-> RelaySameMessage(remote_name)]
    ELSE [self |-> self,
          remote |-> add_channel(remote, GroupChannel(m.group_channel_id)),
          ret |-> RelaySameMessage(remote_name)]

\* handle_open_standard_mining_channel_success for an upstream that is not
\* header only.  A header-only downstream gets a standard channel and the
\* group gets its dispatcher; another downstream gets the group channel.
\* Returns the node, the remote after add_channel and the directive.
handle_open_standard_mining_channel_success(self, m, remote_name, remote) ==
    IF is_header_only(remote_name)
    THEN [self |-> IF m.group_channel_id \in DOMAIN self.channel_id_to_job_dispatcher
                   THEN self
                   ELSE [self EXCEPT !.channel_id_to_job_dispatcher =
                            MapInsert(@, m.group_channel_id, GroupChannelJobDispatcherNew)],
          remote |-> add_channel(remote,
                        StandardDownstreamChannel(m.group_channel_id, m.channel_id)),
          ret |-> RelaySameMessage(remote_name)]
    ELSE [self |-> self,
          remote |-> add_channel(remote, GroupChannel(m.group_channel_id)),
          ret |-> RelaySameMessage(remote_name)]

\* The channels that the two nested loops of a handler visit, in order: for
\* each downstream of the Vec, each channel it has under channel_id.  panic
\* stands for the unwrap on a downstream that has no channel under it.
RECURSIVE ChannelsVisited(_, _, _)
ChannelsVisited(downstreams, downs, channel_id) ==
    IF downstreams = << >> THEN [panic |-> FALSE, visited |-> << >>]
    ELSE LET d == Head(downstreams)
             rest == ChannelsVisited(Tail(downstreams), downs, channel_id)
         IN  IF channel_id \notin DOMAIN downs[d].channels
             THEN [panic |-> TRUE, visited |-> << >>]
             ELSE [panic |-> rest.panic,
                   visited |->
                      [i \in 1..Len(downs[d].channels[channel_id]) |->
                          [downstream |-> d, channel |-> downs[d].channels[channel_id][i]]]
                      \o rest.visited]

\* The body of the loops of handle_new_extended_mining_job over the visited
\* channels: a group channel pushes RelaySameMessage, a standard channel
\* pushes RelayNewMessage with the job of the dispatcher.
RECURSIVE ExtendedJobLoop(_, _, _, _, _)
ExtendedJobLoop(visited, dispatcher, job_ids, m, messages) ==
    IF visited = << >>
    THEN [dispatcher |-> dispatcher, job_ids |-> job_ids, messages |-> messages]
    ELSE LET v == Head(visited)
         IN  IF v.channel.kind = "Group"
             THEN ExtendedJobLoop(Tail(visited), dispatcher, job_ids, m,
                                  Append(messages, RelaySameMessage(v.downstream)))
             ELSE LET r == on_new_extended_mining_job(dispatcher, m, v.channel.channel,
                                                      IdNext(job_ids))
                  IN  ExtendedJobLoop(Tail(visited), r.self, IdNext(job_ids), m,
                          Append(messages,
                                 RelayNewMessage(v.downstream, "NewMiningJob", r.ret)))

\* self.downstream_selector.get_downstreams_in_channel(channel_id) and the
\* channels visited from it; panic for each of the unwraps.
DownstreamChannelsIn(self, downs, channel_id) ==
    IF channel_id \notin DOMAIN self.downstream_selector.channel_id_to_downstreams
    THEN [panic |-> TRUE, visited |-> << >>]
    ELSE ChannelsVisited(get_downstreams_in_channel(self.downstream_selector, channel_id),
                         downs, channel_id)

\* UpstreamMiningNode::handle_new_extended_mining_job.  The unwraps panic
\* when the channel has no downstream or no dispatcher.
handle_new_extended_mining_job(self, downs, m) ==
    LET v == DownstreamChannelsIn(self, downs, m.channel_id)
    IN  IF v.panic \/ m.channel_id \notin DOMAIN self.channel_id_to_job_dispatcher
        THEN [self |-> self, ret |-> [kind |-> "panic"]]
        ELSE LET r == ExtendedJobLoop(v.visited,
                          self.channel_id_to_job_dispatcher[m.channel_id],
                          self.job_ids, m, << >>)
             IN  [self |-> [self EXCEPT
                               !.job_ids = r.job_ids,
                               !.channel_id_to_job_dispatcher =
                                   MapInsert(@, m.channel_id, r.dispatcher)],
                  ret |-> Multiple(r.messages)]

\* The body of the loops of handle_set_new_prev_hash over the visited
\* channels: todo!() on a group channel, a SetNewPrevHash with the channel's
\* id and the upstream's job_id on a standard channel.
RECURSIVE PrevHashLoop(_, _, _)
PrevHashLoop(visited, m, messages) ==
    IF visited = << >> THEN [panic |-> FALSE, messages |-> messages]
    ELSE LET v == Head(visited)
         IN  IF v.channel.kind = "Group"
             THEN [panic |-> TRUE, messages |-> messages]
             ELSE PrevHashLoop(Tail(visited), m,
                      Append(messages,
                             RelayNewMessage(v.downstream, "SetNewPrevHash",
                                 SetNewPrevHash(v.channel.channel.channel_id, m.job_id,
                                                m.prev_hash, m.nbits))))

\* UpstreamMiningNode::handle_set_new_prev_hash of a node that is not header
\* only: panic!() without a dispatcher; the Result of
\* dispatcher.on_new_prev_hash(&m) is dropped.
handle_set_new_prev_hash(self, downs, m) ==
    IF m.channel_id \notin DOMAIN self.channel_id_to_job_dispatcher
    THEN [self |-> self, ret |-> [kind |-> "panic"], accepted |-> "panic"]
    ELSE LET r == on_new_prev_hash(self.channel_id_to_job_dispatcher[m.channel_id], m)
             v == DownstreamChannelsIn(self, downs, m.channel_id)
             l == PrevHashLoop(v.visited, m, << >>)
             after == [self EXCEPT !.channel_id_to_job_dispatcher =
                                      MapInsert(@, m.channel_id, r.self)]
         IN  IF r.ret = "panic" \/ v.panic \/ l.panic
             THEN [self |-> after, ret |-> [kind |-> "panic"], accepted |-> r.ret]
             ELSE [self |-> after, ret |-> Multiple(l.messages), accepted |-> r.ret]

\* The loop of next over SendTo::Multiple: a RelayNewMessage is sent, any
\* other directive is todo!().  Returns what was sent before the loop ended
\* and whether it ended in the panic.
RECURSIVE NextMultiple(_, _)
NextMultiple(sends_to, sent) ==
    IF sends_to = << >> THEN [sent |-> sent, panic |-> FALSE]
    ELSE IF Head(sends_to).kind = "RelayNewMessage"
    THEN NextMultiple(Tail(sends_to),
                      Append(sent, [to |-> Head(sends_to).to, type |-> Head(sends_to).type,
                                    message |-> Head(sends_to).message]))
    ELSE [sent |-> sent, panic |-> TRUE]

\* UpstreamMiningNode::next after handle_message_mining returned ret for the
\* frame incoming_frame.
next(ret, type, incoming_frame) ==
    CASE ret.kind = "RelaySameMessage" ->
            [sent |-> <<[to |-> ret.to, type |-> type, message |-> incoming_frame]>>,
             panic |-> FALSE]
      [] ret.kind = "Multiple" -> NextMultiple(ret.messages, << >>)
      [] OTHER -> [sent |-> << >>, panic |-> TRUE]

\* Number of channels opened through the node so far.
OpenedThroughNode == Cardinality(DOMAIN upstream_node.downstream_selector.channel_id_to_downstream)

\* OpenStandardMiningChannelSuccess for downstream d arrives from the upstream:
\* the routing logic takes d from the selector, the handler adds the channel,
\* next relays the message.  The upstream numbers the channels as it opens them.
NodeOnOpenStandardMiningChannelSuccess(d, g) ==
    /\ ~node_crashed
    /\ OpenedThroughNode < MaxOpened
    /\ LET channel_id == OpenedThroughNode + 1
           m == [request_id |-> 0, channel_id |-> channel_id, group_channel_id |-> g]
           pending == on_open_standard_channel_request(upstream_node.downstream_selector, 0, d)
           sel == on_open_standard_channel_success(pending, 0, g, channel_id)
           r == handle_open_standard_mining_channel_success(
                    [upstream_node EXCEPT !.downstream_selector = sel.self], m, d, down_nodes[d])
           n == next(r.ret, "OpenStandardMiningChannelSuccess", m)
       IN  /\ upstream_node' = r.self
           /\ down_nodes' = DownstreamSend([down_nodes EXCEPT ![d] = r.remote], n.sent)
           /\ node_last' = [op |-> "handle_open_standard_mining_channel_success", m |-> m,
                            ret |-> r.ret, sent |-> n.sent, accepted |-> "Ok",
                            handled |-> node_last.handled]
           /\ node_crashed' = n.panic
    /\ UNCHANGED proxyOthers

\* NewExtendedMiningJob arrives from the upstream.
NodeOnNewExtendedMiningJob(g, j, f) ==
    /\ ~node_crashed
    /\ node_last.handled < MaxHandled
    /\ LET m == NewExtendedMiningJob(g, j, f)
           r == handle_new_extended_mining_job(upstream_node, down_nodes, m)
           n == next(r.ret, "NewExtendedMiningJob", m)
       IN  /\ upstream_node' = r.self
           /\ down_nodes' = DownstreamSend(down_nodes, n.sent)
           /\ node_last' = [op |-> "handle_new_extended_mining_job", m |-> m,
                            ret |-> r.ret, sent |-> n.sent, accepted |-> "Ok",
                            handled |-> node_last.handled + 1]
           /\ node_crashed' = n.panic
    /\ UNCHANGED proxyOthers

\* SetNewPrevHash arrives from the upstream.
NodeOnSetNewPrevHash(g, j, p) ==
    /\ ~node_crashed
    /\ node_last.handled < MaxHandled
    /\ LET m == SetNewPrevHash(g, j, p, 0)
           r == handle_set_new_prev_hash(upstream_node, down_nodes, m)
           n == next(r.ret, "SetNewPrevHash", m)
       IN  /\ upstream_node' = r.self
           /\ down_nodes' = DownstreamSend(down_nodes, n.sent)
           /\ node_last' = [op |-> "handle_set_new_prev_hash", m |-> m,
                            ret |-> r.ret, sent |-> n.sent, accepted |-> r.accepted,
                            handled |-> node_last.handled + 1]
           /\ node_crashed' = n.panic
    /\ UNCHANGED proxyOthers

(***************************************************************************)
(* mining-proxy/src/lib/upstream_mining.rs: send, connect, receive,        *)
(* setup_connection and setup_flag_and_version of the upstream node.       *)
(***************************************************************************)
\* Cap on the number of frames queued for the upstream.
MaxSent == 3
\* Depth to which the recursion send -> setup_connection -> send is followed;
\* a call that is still recursing at that depth is reported as "diverges".
MaxSendDepth == 3
\* The frames a caller sends.
SendFrames == {"frameA", "frameB"}
\* What the surroundings do during one call: TcpStream::connect succeeds, the
\* queue of a new Connection is still open when it is used, what receive
\* gets back for a SetupConnection (SetupConnectionErrorFlags: an error that
\* names flags), and what it gets back for the SetupConnection sent again.
SendEnvs ==
    [tcp_ok : BOOLEAN, fresh_open : BOOLEAN,
     response : {"SetupConnectionSuccess", "SetupConnectionError",
                 "SetupConnectionErrorFlags", "RecvErr"},
     retry : {"SetupConnectionSuccess", "SetupConnectionError"}]

\* connection: None, or Some whose sender is "Open" or "Closed";
\* sv2_connection: Some or None.
MiningNodeNew == [connection |-> "None", sv2_connection |-> FALSE]

\* UpstreamMiningNode::connect: Ok at once when a connection is present,
\* whatever its state; else TcpStream::connect and Connection::new.
connect(self, env) ==
    IF self.connection # "None" THEN [self |-> self, ret |-> "Ok"]
    ELSE IF ~env.tcp_ok THEN [self |-> self, ret |-> "Err"]
    ELSE [self |-> [self EXCEPT !.connection = IF env.fresh_open THEN "Open" ELSE "Closed"],
          ret |-> "Ok"]

\* UpstreamMiningNode::receive with a connection present.
receive(self, env, response) ==
    IF response = "RecvErr" THEN [self |-> connect(self, env).self, ret |-> "Err"]
    ELSE [self |-> self, ret |-> response]

\* UpstreamMiningNode::send and ::setup_connection, which call each other.
\* ret is "Ok", "Err", "panic" or "diverges"; delivered holds the frames put
\* on the connection's queue, in order.
RECURSIVE send(_, _, _, _), setup_connection(_, _, _)
send(self, sv2_frame, env, depth) ==
    IF self.connection # "None" /\ self.sv2_connection
    THEN IF self.connection = "Open"
         THEN [self |-> self, ret |-> "Ok", delivered |-> <<sv2_frame>>]
         ELSE LET c == connect(self, env)
                  r == setup_connection(c.self, env, depth)
              IN  [self |-> r.self,
                   ret |-> IF r.ret = "Err" THEN "panic" ELSE r.ret,
                   delivered |-> r.delivered]
    ELSE IF self.connection # "None"
    THEN IF self.connection = "Open"
         THEN [self |-> self, ret |-> "Ok", delivered |-> <<sv2_frame>>]
         ELSE [self |-> self, ret |-> "Err", delivered |-> << >>]
    ELSE LET c == connect(self, env)
         IN  IF c.ret = "Err"
             THEN [self |-> c.self, ret |-> "panic", delivered |-> << >>]
             ELSE IF c.self.connection = "Closed"
             THEN [self |-> c.self, ret |-> "Err", delivered |-> << >>]
             ELSE LET r == setup_connection(c.self, env, depth)
                  IN  [self |-> r.self,
                       ret |-> IF r.ret = "Err" THEN "panic" ELSE r.ret,
                       delivered |-> <<sv2_frame>> \o r.delivered]
setup_connection(self, env, depth) ==
    IF ~self.sv2_connection THEN [self |-> self, ret |-> "Ok", delivered |-> << >>]
    ELSE IF depth = 0 THEN [self |-> self, ret |-> "diverges", delivered |-> << >>]
    ELSE LET r == send(self, "SetupConnection", env, depth - 1)
         IN  IF r.ret # "Ok"
             THEN r
             ELSE LET response == receive(r.self, env, env.response)
                  IN  [self |-> response.self,
                       ret |-> CASE response.ret = "Err" -> "Err"
                                 [] response.ret = "SetupConnectionSuccess" -> "Ok"
                                 [] OTHER -> "panic",
                       delivered |-> r.delivered]

\* UpstreamMiningNode::setup_flag_and_version: SetupConnectionSuccess stores
\* the sv2_connection; SetupConnectionError that names flags sends the
\* SetupConnection again without them; with no flag named it returns Err.
RECURSIVE setup_flag_and_version(_, _, _)
setup_flag_and_version(self, env, retried) ==
    LET r == send(self, "SetupConnection", env, MaxSendDepth)
    IN  IF r.ret # "Ok" THEN r
        ELSE LET response == receive(r.self, env, IF retried THEN env.retry ELSE env.response)
             IN  CASE response.ret = "SetupConnectionSuccess" ->
                        [self |-> [response.self EXCEPT !.sv2_connection = TRUE],
                         ret |-> "Ok", delivered |-> r.delivered]
                   [] response.ret = "SetupConnectionErrorFlags" ->
                        LET again == setup_flag_and_version(response.self, env, TRUE)
                        IN  [again EXCEPT !.delivered = r.delivered \o @]
                   [] OTHER ->
                        [self |-> response.self, ret |-> "Err", delivered |-> r.delivered]

\* A call recorded in send_last.
SendCall(op, frame, before, r) ==
    [op |-> op, frame |-> frame, before |-> before, ret |-> r.ret, delivered |-> r.delivered]

\* A task calls UpstreamMiningNode::send.
NodeSend(frame, env) ==
    /\ send_last.ret \notin {"panic", "diverges"}
    /\ Len(upstream_inbox) < MaxSent
    /\ LET r == send(mining_node, frame, env, MaxSendDepth)
       IN  /\ mining_node' = r.self
           /\ upstream_inbox' = upstream_inbox \o r.delivered
           /\ send_last' = SendCall("send", frame, mining_node, r)
    /\ UNCHANGED sendOthers

\* scan calls UpstreamMiningNode::setup_flag_and_version.
NodeSetupFlagAndVersion(env) ==
    /\ send_last.ret \notin {"panic", "diverges"}
    /\ Len(upstream_inbox) < MaxSent
    /\ LET r == setup_flag_and_version(mining_node, env, FALSE)
       IN  /\ mining_node' = r.self
           /\ upstream_inbox' = upstream_inbox \o r.delivered
           /\ send_last' = SendCall("setup_flag_and_version", "SetupConnection",
                                    mining_node, r)
    /\ UNCHANGED sendOthers

\* The writer task of the connection ends: its queue is closed and every
\* later send on it fails.
NodeConnectionCloses ==
    /\ mining_node.connection = "Open"
    /\ mining_node' = [mining_node EXCEPT !.connection = "Closed"]
    /\ UNCHANGED <<upstream_inbox, send_last, sendOthers>>

\* The writer task takes the oldest frame from the queue.
NodeConnectionWrites ==
    /\ mining_node.connection = "Open"
    /\ upstream_inbox # << >>
    /\ upstream_inbox' = Tail(upstream_inbox)
    /\ UNCHANGED <<mining_node, send_last, sendOthers>>

(***************************************************************************)
(* Specifications.                                                         *)
(***************************************************************************)
NoCall == [op |-> "new", d |-> 0, arg |-> << >>, channel |-> << >>, ret |-> << >>]

InitDispatchers ==
    /\ ids = IdNew
    /\ dispatchers = [d \in Dispatchers |-> GroupChannelJobDispatcherNew]
    /\ last = NoCall
    /\ issued = << >>
    /\ crashed = FALSE

InitGroups ==
    /\ groups = UpstreamWithGroupsNew.groups
    /\ group_ids = UpstreamWithGroupsNew.ids
    /\ extranonces = UpstreamWithGroupsNew.extranonces
    /\ opened = << >>
    /\ group_ret = [op |-> "new", ret |-> << >>]

InitSelector ==
    /\ selector = ProxyDownstreamMiningSelectorNew
    /\ sel_last = [op |-> "new", request_id |-> 0, g_channel_id |-> 0, channel_id |-> 0,
                   ret |-> "()"]

InitUpstreamSelector ==
    /\ upstream_selector = GeneralMiningSelectorNew(<< >>)
    /\ pair_last = [op |-> "new", pair_settings |-> << >>, passing |-> {}, ret |-> << >>]

InitMapper ==
    /\ mapper = RequestIdMapperNew
    /\ mapper_last = [op |-> "new", arg |-> 0, ret |-> [kind |-> "()"]]
    /\ assigned = << >>

InitNoise ==
    /\ initiator = None
    /\ responder = None
    /\ i_status = "absent"
    /\ r_status = "absent"
    /\ net_to_r = None
    /\ net_to_i = None
    /\ hs_log = << >>
    /\ altered = [list |-> FALSE, choice |-> FALSE]
    /\ i_transport = None
    /\ r_transport = None
    /\ wire = [initiator |-> << >>, responder |-> << >>]
    /\ tr_sent = [initiator |-> << >>, responder |-> << >>]
    /\ tr_received = [initiator |-> << >>, responder |-> << >>]

InitConnection ==
    /\ reader_status = "running"
    /\ incoming = << >>
    /\ read_log = << >>

InitTasks ==
    /\ lock_holder = "none"
    /\ reader_pc = "read_exact"
    /\ writer_pc = "recv"
    /\ incoming_q = << >>
    /\ outgoing_q = << >>
    /\ outgoing_open = TRUE
    /\ state_set = FALSE

InitMutex ==
    /\ mutex = MutexNew(0)
    /\ mutex_last = [op |-> "new", thunk |-> "read", poisoned |-> FALSE,
                     ret |-> [kind |-> "()"]]

InitProxy ==
    /\ upstream_node = UpstreamMiningNodeNew
    /\ down_nodes = [d \in ProxyDownstreams |-> [channels |-> EmptyMap, inbox |-> << >>]]
    /\ node_last = [op |-> "new", m |-> << >>, ret |-> [kind |-> "None"], sent |-> << >>,
                    accepted |-> "Ok", handled |-> 0]
    /\ node_crashed = FALSE

InitSend ==
    /\ mining_node = MiningNodeNew
    /\ upstream_inbox = << >>
    /\ send_last = [op |-> "new", frame |-> "", before |-> MiningNodeNew, ret |-> "Ok",
                    delivered |-> << >>]

(***************************************************************************)
(* The SV1 side of the translator: Downstream (roles/translator,           *)
(* downstream_sv1/downstream.rs) and the Bridge that feeds it.  Every      *)
(* accepted connection gets a Downstream with a reader task, a task that   *)
(* pushes mining.set_difficulty and mining.notify, and a task that follows *)
(* the target.  The shares go to the Bridge over submit_sender.            *)
(***************************************************************************)
\* bounded(10): the queue that carries the shares from the Downstreams to the Bridge.
SubmitCapacity == 10
\* The notifications kept per Downstream (a bound of the model).
MaxNotifications == 3
\* The Notify that may wait on the mining_notify channel (a bound of the model).
MaxQueuedNotifies == 1
Sv1Downstreams == {"sv1A", "sv1B"}
Sv1Workers == {"worker"}
Sv1Targets == {1, 2}
\* The NewExtendedMiningJob the upstream sends (a bound of the model); the
\* upstream numbers its jobs in increasing order.
MaxSv1Jobs == 2
Sv1JobIds == 1..MaxSv1Jobs
Sv1PrevHashes == {45}

\* ExtendedExtranonce handed to accept_connections: range_0 is the upstream's
\* prefix, range_1 the part the proxy reserves, range_2 the part the device rolls.
ExtendedExtranonceNew == [range_0 |-> <<0>>, range_1 |-> <<0, 0>>, range_2 |-> <<0, 0>>]

\* Downstream { authorized_names, extranonce, first_job_received, .. } as
\* Downstream::new builds it, with the state of the tasks it spawns.  The
\* Mutex around it is poisoned once a closure panicked under its lock.
Sv1DownstreamNew(extranonce, target) ==
    [connected |-> TRUE,
     authorized_names |-> << >>,
     extranonce |-> extranonce,
     first_job_received |-> FALSE,
     poisoned |-> FALSE,
     reader_task |-> "running",
     notify_task |-> "running",
     first_sent |-> FALSE,
     target_task |-> "running",
     last_target |-> target,
     sender_outgoing |-> << >>]

\* A connection that was not accepted yet.
Sv1NotConnected ==
    [Sv1DownstreamNew(ExtendedExtranonceNew, 1) EXCEPT
        !.connected = FALSE, !.reader_task = "none", !.notify_task = "none",
        !.target_task = "none"]

\* Downstream::get_set_difficulty: the mining.set_difficulty built from a target;
\* value stands for the difficulty of that target, named by the target it was
\* derived from.  by names the task that sent it.
get_set_difficulty(target, by) ==
    [method |-> "mining.set_difficulty", value |-> <<"difficulty_from_target", target>>,
     by |-> by]

\* Notify turned into the mining.notify message.
NotifyMessage(notify, by) ==
    [method |-> "mining.notify", value |-> <<"notify", notify>>, by |-> by]

\* send_message_downstream: sender_outgoing.send(response).  The notifications
\* are kept in send order; the responses to requests are kept in sv1_last only.
send_message_downstream(self, response) ==
    [self EXCEPT !.sender_outgoing = Append(@, response)]

\* Downstream::is_authorized
is_authorized(self, name) == \E i \in DOMAIN self.authorized_names : self.authorized_names[i] = name

\* Downstream::authorize
authorize(self, name) == [self EXCEPT !.authorized_names = Append(@, name)]

\* Downstream::handle_authorize
handle_authorize(self, request) == TRUE

\* IsServer::handle_message on mining.authorize: the user is appended to the
\* authorized set when handle_authorize accepts it; the response is its result.
HandleMessageAuthorize(self, request) ==
    LET authorized == handle_authorize(self, request)
    IN [self |-> IF authorized /\ ~is_authorized(self, request)
                 THEN authorize(self, request) ELSE self,
        response |-> authorized]

\* Sender::try_send on a bounded queue: Err(Full) when the queue is at capacity.
try_send(queue, capacity, to_send) ==
    IF Len(queue) >= capacity
    THEN [ok |-> FALSE, queue |-> queue]
    ELSE [ok |-> TRUE, queue |-> Append(queue, to_send)]

\* Downstream::handle_submit: with first_job_received the (request, extranonce)
\* pair goes to submit_sender by try_send(..).unwrap(); the answer is true.
handle_submit(self, request, queue) ==
    IF self.first_job_received
    THEN LET sent == try_send(queue, SubmitCapacity,
                              [request |-> request, extranonce |-> self.extranonce])
         IN [panic |-> ~sent.ok, queue |-> sent.queue, response |-> TRUE]
    ELSE [panic |-> FALSE, queue |-> queue, response |-> TRUE]

\* accept_connections, one turn of its loop: Downstream::new is given
\* extended_extranonce.clone(); the loop's own value stays as it was.
accept_connections(extranonce, target) ==
    [downstream |-> Sv1DownstreamNew(extranonce, target), extended_extranonce |-> extranonce]

\* A mining device connects.
Sv1AcceptConnection(d) ==
    /\ ~sv1[d].connected
    /\ LET accepted == accept_connections(extended_extranonce, sv1_target)
       IN /\ sv1' = [sv1 EXCEPT ![d] = accepted.downstream]
          /\ extended_extranonce' = accepted.extended_extranonce
    /\ sv1_last' = [op |-> "accept", d |-> d, first_job_received |-> FALSE,
                    full |-> FALSE, outcome |-> "Ok"]
    /\ UNCHANGED <<last_notify, mining_notify_q, submit_q, sv1_target, next_mining_notify>>
    /\ UNCHANGED translatorOthers

\* The reader task takes a mining.authorize: handle_incoming_sv1.
Sv1Authorize(d, name) ==
    /\ sv1[d].reader_task = "running"
    /\ IF sv1[d].poisoned
       THEN /\ sv1' = [sv1 EXCEPT ![d].reader_task = "panicked"]
            /\ sv1_last' = [op |-> "mining.authorize", d |-> d,
                            first_job_received |-> sv1[d].first_job_received,
                            full |-> FALSE, outcome |-> "panic"]
       ELSE LET handled == HandleMessageAuthorize(sv1[d], name)
            IN /\ sv1' = [sv1 EXCEPT ![d] = handled.self]
               /\ sv1_last' = [op |-> "mining.authorize", d |-> d,
                               first_job_received |-> sv1[d].first_job_received,
                               full |-> FALSE, outcome |-> "true"]
    /\ UNCHANGED <<extended_extranonce, last_notify, mining_notify_q, submit_q, sv1_target,
                   next_mining_notify>>
    /\ UNCHANGED translatorOthers

\* The reader task takes a mining.submit: handle_incoming_sv1 runs
\* handle_message, and so handle_submit, under the lock of the Downstream.
\* A panic there poisons the Mutex and ends the reader task.
Sv1Submit(d, request) ==
    /\ sv1[d].reader_task = "running"
    /\ LET handled == handle_submit(sv1[d], request, submit_q)
           aborted == sv1[d].poisoned \/ handled.panic
       IN /\ sv1' = [sv1 EXCEPT ![d].reader_task = IF aborted THEN "panicked" ELSE @,
                                ![d].poisoned = aborted]
          /\ submit_q' = IF sv1[d].poisoned THEN submit_q ELSE handled.queue
          /\ sv1_last' = [op |-> "mining.submit", d |-> d,
                          first_job_received |-> sv1[d].first_job_received,
                          full |-> Len(submit_q) >= SubmitCapacity,
                          outcome |-> IF aborted THEN "panic" ELSE "true"]
    /\ UNCHANGED <<extended_extranonce, last_notify, mining_notify_q, sv1_target,
                   next_mining_notify>>
    /\ UNCHANGED translatorOthers

\* One turn of the loop of the task that pushes the notifications.
NotifyTaskTurn(self, notify, queue) ==
    LET is_a == self.authorized_names # << >>
    IN IF self.poisoned
       THEN [self |-> [self EXCEPT !.notify_task = "panicked"], queue |-> queue]
       ELSE IF is_a /\ ~self.first_sent
       THEN LET difficulty_sent ==
                    send_message_downstream(self,
                        get_set_difficulty(sv1_target, "notify_task"))
            IN IF notify = None
               THEN [self |-> [difficulty_sent EXCEPT !.notify_task = "panicked"],
                     queue |-> queue]
               ELSE [self |-> [send_message_downstream(difficulty_sent,
                                   NotifyMessage(notify.value, "notify_task"))
                               EXCEPT !.first_job_received = TRUE, !.first_sent = TRUE],
                     queue |-> queue]
       ELSE IF is_a
       THEN [self |-> send_message_downstream(self, NotifyMessage(Head(queue), "notify_task")),
             queue |-> Tail(queue)]
       ELSE [self |-> self, queue |-> queue]

\* The turn is taken when it does something: an unauthorized Downstream makes
\* the loop spin, and recv() waits while the mining_notify channel is empty.
Sv1NotifyTask(d) ==
    /\ sv1[d].notify_task = "running"
    /\ Len(sv1[d].sender_outgoing) + (IF sv1[d].first_sent THEN 1 ELSE 2) <= MaxNotifications
    /\ IF sv1[d].poisoned THEN TRUE
       ELSE IF sv1[d].authorized_names = << >> THEN FALSE
       ELSE IF ~sv1[d].first_sent THEN TRUE
       ELSE mining_notify_q # << >>
    /\ LET turn == NotifyTaskTurn(sv1[d], last_notify, mining_notify_q)
       IN /\ sv1' = [sv1 EXCEPT ![d] = turn.self]
          /\ mining_notify_q' = turn.queue
    /\ UNCHANGED <<extended_extranonce, last_notify, submit_q, sv1_target,
                   next_mining_notify, sv1_last>>
    /\ UNCHANGED translatorOthers

\* One turn of the loop of the task that follows the target, taken when the
\* target differs from last_target or the Mutex is poisoned.
Sv1TargetTask(d) ==
    /\ sv1[d].target_task = "running"
    /\ Len(sv1[d].sender_outgoing) < MaxNotifications
    /\ IF sv1[d].poisoned
       THEN sv1' = [sv1 EXCEPT ![d].target_task = "panicked"]
       ELSE /\ sv1_target # sv1[d].last_target
            /\ sv1' = [sv1 EXCEPT ![d] =
                          send_message_downstream([@ EXCEPT !.last_target = sv1_target],
                              get_set_difficulty(sv1_target, "target_task"))]
    /\ UNCHANGED <<extended_extranonce, last_notify, mining_notify_q, submit_q, sv1_target,
                   next_mining_notify, sv1_last>>
    /\ UNCHANGED translatorOthers

\* The upstream side stores a new target; within a run the targets only grow,
\* which bounds the run.
Sv1SetTarget(t) ==
    /\ t > sv1_target
    /\ sv1_target' = t
    /\ UNCHANGED <<sv1, extended_extranonce, last_notify, mining_notify_q, submit_q,
                   next_mining_notify, sv1_last>>
    /\ UNCHANGED translatorOthers

\* NextMiningNotify::create_notify: a Notify exists once both messages are kept.
create_notify(nmn) ==
    IF nmn.set_new_prev_hash # None /\ nmn.new_extended_mining_job # None
    THEN Some(nmn.new_extended_mining_job.value)
    ELSE None

\* Bridge::handle_new_prev_hash: the message is kept in next_mining_notify.
BridgeHandleNewPrevHash(p) ==
    /\ next_mining_notify.set_new_prev_hash # Some(p)
    /\ next_mining_notify' = [next_mining_notify EXCEPT !.set_new_prev_hash = Some(p)]
    /\ UNCHANGED <<sv1, extended_extranonce, last_notify, mining_notify_q, submit_q,
                   sv1_target, sv1_last>>
    /\ UNCHANGED translatorOthers

\* Bridge::handle_new_extended_mining_job: the message is kept, then
\* create_notify; the Notify made is stored in last_notify and sent on the
\* mining_notify channel, and the pair is consumed.
BridgeHandleNewExtendedMiningJob(j) ==
    /\ Len(mining_notify_q) < MaxQueuedNotifies
    /\ (last_notify # None) => j > last_notify.value
    /\ (next_mining_notify.new_extended_mining_job # None)
          => j > next_mining_notify.new_extended_mining_job.value
    /\ LET kept == [next_mining_notify EXCEPT !.new_extended_mining_job = Some(j)]
           notify == create_notify(kept)
       IN IF notify = None
          THEN /\ next_mining_notify' = kept
               /\ UNCHANGED <<last_notify, mining_notify_q>>
          ELSE /\ next_mining_notify' =
                     [set_new_prev_hash |-> None, new_extended_mining_job |-> None]
               /\ last_notify' = notify
               /\ mining_notify_q' = Append(mining_notify_q, notify.value)
    /\ UNCHANGED <<sv1, extended_extranonce, submit_q, sv1_target, sv1_last>>
    /\ UNCHANGED translatorOthers

\* Bridge::handle_downstream_share_submission: one share is received.
BridgeRecvSubmit ==
    /\ submit_q # << >>
    /\ submit_q' = Tail(submit_q)
    /\ UNCHANGED <<sv1, extended_extranonce, last_notify, mining_notify_q, sv1_target,
                   next_mining_notify, sv1_last>>
    /\ UNCHANGED translatorOthers

InitTranslator ==
    /\ sv1 = [d \in Sv1Downstreams |-> Sv1NotConnected]
    /\ extended_extranonce = ExtendedExtranonceNew
    /\ last_notify = None
    /\ mining_notify_q = << >>
    /\ submit_q = << >>
    /\ sv1_target = 1
    /\ next_mining_notify = [set_new_prev_hash |-> None, new_extended_mining_job |-> None]
    /\ sv1_last = [op |-> "new", d |-> "", first_job_received |-> FALSE, full |-> FALSE,
                   outcome |-> "Ok"]

NextTranslator ==
    \/ \E d \in Sv1Downstreams : Sv1AcceptConnection(d)
    \/ \E d \in Sv1Downstreams, name \in Sv1Workers : Sv1Authorize(d, name)
    \/ \E d \in Sv1Downstreams : Sv1Submit(d, "mining.submit")
    \/ \E d \in Sv1Downstreams : Sv1NotifyTask(d)
    \/ \E d \in Sv1Downstreams : Sv1TargetTask(d)
    \/ \E t \in Sv1Targets : Sv1SetTarget(t)
    \/ \E p \in Sv1PrevHashes : BridgeHandleNewPrevHash(p)
    \/ \E j \in Sv1JobIds : BridgeHandleNewExtendedMiningJob(j)
    \/ BridgeRecvSubmit

(***************************************************************************)
(* The globals of the mining proxy (main.rs): ROUTING_LOGIC and            *)
(* JOB_ID_TO_UPSTREAM_ID, and the handlers of the upstream nodes that      *)
(* record a job id there before the job goes downstream.                   *)
(***************************************************************************)
\* The jobs kept in relayed_jobs (a bound of the model).
MaxRelayed == 3
\* initialize_r_logic: the node built from upstreams[index] has id index.
ProxyUpstreamIds == {0, 1}
\* The job ids an upstream puts in NewMiningJob / NewExtendedMiningJob.
RelayedJobIds == {1, 2}
\* The job ids a downstream may name in a share.
SubmittedJobIds == {1, 2, 3}
\* prev_job_id of add_job_id.  The calls in upstream_mining.rs name two
\* arguments and the function takes three, so the third is any value.
PrevJobIds == {None} \cup {Some(j) : j \in RelayedJobIds}

\* GeneralMiningSelector::get_upstream on the proxy's selector:
\* self.id_to_upstream.get(&upstream_id).cloned()
get_upstream(upstream_id) ==
    IF upstream_id \in ProxyUpstreamIds THEN Some(upstream_id) ELSE None

\* Mutex::safe_lock around a closure on the global map: Err when the Mutex is
\* poisoned; a closure that panics leaves it poisoned.
\* add_job_id(job_id, up_id, prev_job_id): remove under one lock, insert
\* under the next; each safe_lock(..).unwrap() panics on a poisoned Mutex.
add_job_id(map, poisoned, job_id, up_id, prev_job_id) ==
    IF poisoned
    THEN [map |-> map, poisoned |-> TRUE, panic |-> TRUE]
    ELSE [map |-> MapInsert(IF prev_job_id = None THEN map
                            ELSE MapRemove(map, prev_job_id.value),
                            job_id, up_id),
          poisoned |-> FALSE, panic |-> FALSE]

\* upstream_from_job_id(job_id): *x.get(&job_id).unwrap() runs inside the
\* closure of safe_lock, then get_upstream under ROUTING_LOGIC.
upstream_from_job_id(map, poisoned, job_id) ==
    IF poisoned
    THEN [poisoned |-> TRUE, panic |-> TRUE, ret |-> None]
    ELSE IF job_id \notin DOMAIN map
    THEN [poisoned |-> TRUE, panic |-> TRUE, ret |-> None]
    ELSE [poisoned |-> FALSE, panic |-> FALSE, ret |-> get_upstream(map[job_id])]

\* What a handler does with the job it sends downstream.
JobIdAdded(op, up, job_id, prev, id_state) ==
    LET added == add_job_id(job_id_to_upstream_id,
                            global_locks.JOB_ID_TO_UPSTREAM_ID, job_id, up, prev)
    IN /\ job_id_to_upstream_id' = added.map
       /\ proxy_job_ids' = id_state
       /\ relayed_jobs' = IF added.panic THEN relayed_jobs
                          ELSE Append(relayed_jobs, [job_id |-> job_id, upstream |-> up])
       /\ job_id_last' = [op |-> op, job_id |-> job_id, panic |-> added.panic, ret |-> None,
                          map_before |-> job_id_to_upstream_id]
       /\ UNCHANGED global_locks

\* UpstreamMiningNode::handle_new_mining_job of upstream up:
\* crate::add_job_id(m.job_id, self.id), the message is relayed unchanged.
JobIdsOnNewMiningJob(up, j, prev) ==
    /\ Len(relayed_jobs) < MaxRelayed
    /\ JobIdAdded("handle_new_mining_job", up, j, prev, proxy_job_ids)
    /\ UNCHANGED jobIdOthers

\* UpstreamMiningNode::handle_new_extended_mining_job of upstream up, for one
\* channel of a downstream: a group channel gets the message unchanged under
\* m.job_id, a standard channel gets the job the dispatcher makes, whose id
\* comes from the job_ids shared by all upstream nodes.
JobIdsOnNewExtendedMiningJob(up, j, channel, prev) ==
    /\ Len(relayed_jobs) < MaxRelayed
    /\ IF channel = "Group"
       THEN JobIdAdded("handle_new_extended_mining_job", up, j, prev, proxy_job_ids)
       ELSE /\ proxy_job_ids < MaxRelayed
            /\ JobIdAdded("handle_new_extended_mining_job", up, IdNext(proxy_job_ids), prev,
                          IdNext(proxy_job_ids))
    /\ UNCHANGED jobIdOthers

\* A share names job_id and the proxy looks for the upstream to send it to.
JobIdsUpstreamFromJobId(j) ==
    /\ LET found == upstream_from_job_id(job_id_to_upstream_id,
                                         global_locks.JOB_ID_TO_UPSTREAM_ID, j)
       IN /\ global_locks' = [global_locks EXCEPT !.JOB_ID_TO_UPSTREAM_ID = found.poisoned]
          /\ job_id_last' = [op |-> "upstream_from_job_id", job_id |-> j,
                             panic |-> found.panic, ret |-> found.ret,
                             map_before |-> job_id_to_upstream_id]
    /\ UNCHANGED <<job_id_to_upstream_id, proxy_job_ids, relayed_jobs>>
    /\ UNCHANGED jobIdOthers

InitJobIds ==
    /\ job_id_to_upstream_id = EmptyMap
    /\ global_locks = [ROUTING_LOGIC |-> FALSE, JOB_ID_TO_UPSTREAM_ID |-> FALSE]
    /\ proxy_job_ids = IdNew
    /\ relayed_jobs = << >>
    /\ job_id_last = [op |-> "new", job_id |-> 0, panic |-> FALSE, ret |-> None,
                      map_before |-> EmptyMap]

NextJobIds ==
    \/ \E up \in ProxyUpstreamIds, j \in RelayedJobIds, prev \in PrevJobIds :
          JobIdsOnNewMiningJob(up, j, prev)
    \/ \E up \in ProxyUpstreamIds, j \in RelayedJobIds, channel \in {"Group", "Standard"},
          prev \in PrevJobIds :
          JobIdsOnNewExtendedMiningJob(up, j, channel, prev)
    \/ \E j \in SubmittedJobIds : JobIdsUpstreamFromJobId(j)

(***************************************************************************)
(* get_short_hash (roles-logic-sv2 utils.rs).  SHA256 and SipHash-2-4 are  *)
(* kept symbolic: a digest is known by what was hashed, and each of its    *)
(* bytes by its position.  The conversions between integers and bytes are  *)
(* computed.                                                               *)
(***************************************************************************)
\* The transaction ids and nonces the function is called with.
MaxTxid == 10
MaxShortHashNonce == 10
Txids == 0..MaxTxid
ShortHashNonces == 0..MaxShortHashNonce

\* u64::to_le_bytes of a number below 2^31: the least significant byte first.
U64ToLeBytes(n) == [i \in 1..8 |-> IF i <= 4 THEN (n \div (256 ^ (i - 1))) % 256 ELSE 0]

\* sha256::Hash::hash(data): 32 bytes, byte i named by the data and i.
Sha256(data) == [i \in 1..32 |-> <<"sha256", data, i>>]

\* u64::from_le_bytes: the integer whose byte of weight 256^(i-1) is bytes[i].
\* The u64 is kept as its eight bytes, indexed by their weight.
U64FromLeBytes(bytes) == [w \in 0..7 |-> bytes[w + 1]]

\* SipHasher24::new_with_keys(k0, k1).hash(&txid): a u64, kept as its eight
\* bytes indexed by weight; byte w is named by the keys, the txid and w.
SipHash24(k0, k1, txid) == [w \in 0..7 |-> <<"siphash24", k0, k1, txid, w>>]

\* u64::to_le_bytes of a u64 kept by weight: the byte of weight 0 comes first.
ToLeBytes(v) == [i \in 1..8 |-> v[i - 1]]

\* get_short_hash(txid, tx_short_hash_nonce)
get_short_hash(txid, tx_short_hash_nonce) ==
    LET nonce_hash == Sha256(U64ToLeBytes(tx_short_hash_nonce))
        k0 == U64FromLeBytes(SubSeq(nonce_hash, 1, 8))
        k1 == U64FromLeBytes(SubSeq(nonce_hash, 9, 16))
        tx_hashed == SipHash24(k0, k1, txid)
        tx_hashed_bytes == SubSeq(ToLeBytes(tx_hashed), 3, 8)
    IN [k0 |-> k0, k1 |-> k1, tx_hashed |-> tx_hashed, short_tx_id |-> tx_hashed_bytes]

\* A short id is computed for a transaction.
GetShortHash(txid, nonce) ==
    /\ short_hash_last' = [op |-> "get_short_hash", txid |-> txid, nonce |-> nonce,
                           ret |-> get_short_hash(txid, nonce)]
    /\ UNCHANGED shortHashOthers

InitShortHash ==
    short_hash_last = [op |-> "new", txid |-> 0, nonce |-> 0, ret |-> get_short_hash(0, 0)]

NextShortHash == \E txid \in Txids, nonce \in ShortHashNonces : GetShortHash(txid, nonce)

(***************************************************************************)
(* network-helpers/src/noise_connection_tokio.rs: Connection::new with the *)
(* role Responder. The reader task, the writer task and the caller, which  *)
(* runs initialize_as_upstream and then set_state, one step per suspension *)
(* point.                                                                  *)
(***************************************************************************)
\* The frames the initiator sends after its two handshake messages, and the
\* frames the role sends once Connection::new returned (bounds of the model).
MaxPeerFrames == 2
MaxRoleFrames == 2

\* codec_sv2::State::new() and the State that into_transport_mode returns.
NotInitialized == "NotInitialized"
TransportMode == "Transport"

\* The frames written to the TCP stream so far: every encoded frame but the
\* one the writer is still writing.
UpWritten ==
    {up_encoded[i].frame :
        i \in 1..(Len(up_encoded) - (IF up_writer.pc = "write_all" THEN 1 ELSE 0))}

\* The initiator (initialize_as_downstream): its first message at once, its
\* third message when the second one reached it, transport frames when the
\* fourth one reached it.
UpPeerSend ==
    /\ \/ up_counts.peer = 0
       \/ up_counts.peer = 1 /\ "second" \in UpWritten
       \/ /\ up_counts.peer >= 2
          /\ up_counts.peer < 2 + MaxPeerFrames
          /\ "fourth" \in UpWritten
    /\ up_wire' = Append(up_wire, CASE up_counts.peer = 0 -> "first"
                                    [] up_counts.peer = 1 -> "third"
                                    [] OTHER -> "data")
    /\ up_counts' = [up_counts EXCEPT !.peer = @ + 1]
    /\ UNCHANGED <<up_pc, up_lock, up_writer, up_reader, up_outgoing, up_incoming, up_state,
                   up_encoded, upHsOthers>>

\* reader.read_exact(writable).await returned Ok; the reader goes to
\* cloned1.lock().await.
UpReaderReadExact ==
    /\ up_reader.pc = "read_exact"
    /\ up_wire # << >>
    /\ up_reader' = [pc |-> "lock", frame |-> Head(up_wire)]
    /\ up_wire' = Tail(up_wire)
    /\ UNCHANGED <<up_pc, up_lock, up_writer, up_outgoing, up_incoming, up_state, up_encoded,
                   up_counts, upHsOthers>>

\* cloned1.lock().await returned the guard and decoder.next_frame gave the
\* frame; the reader goes to sender_incoming.send(x).await, the guard alive.
UpReaderLock ==
    /\ up_reader.pc = "lock"
    /\ up_lock = "none"
    /\ up_lock' = "reader"
    /\ up_reader' = [up_reader EXCEPT !.pc = "send"]
    /\ UNCHANGED <<up_pc, up_writer, up_outgoing, up_incoming, up_state, up_encoded, up_wire,
                   up_counts, upHsOthers>>

\* sender_incoming.send(x).await returned; the guard is dropped.
UpReaderSend ==
    /\ up_reader.pc = "send"
    /\ Len(up_incoming) < IncomingCapacity
    /\ up_incoming' = Append(up_incoming, up_reader.frame)
    /\ up_lock' = "none"
    /\ up_reader' = [pc |-> "read_exact", frame |-> "none"]
    /\ UNCHANGED <<up_pc, up_writer, up_outgoing, up_state, up_encoded, up_wire, up_counts,
                   upHsOthers>>

\* receiver_outgoing.recv().await returned Ok(frame): the frame left the
\* queue; the writer goes to cloned2.lock().await.
UpWriterRecv ==
    /\ up_writer.pc = "recv"
    /\ up_outgoing # << >>
    /\ up_writer' = [pc |-> "lock", frame |-> Head(up_outgoing)]
    /\ up_outgoing' = Tail(up_outgoing)
    /\ UNCHANGED <<up_pc, up_lock, up_reader, up_incoming, up_state, up_encoded, up_wire,
                   up_counts, upHsOthers>>

\* cloned2.lock().await returned the guard; encoder.encode(frame, &mut
\* connection.state); the writer goes to writer.write_all(b).await.
UpWriterEncode ==
    /\ up_writer.pc = "lock"
    /\ up_lock = "none"
    /\ up_lock' = "writer"
    /\ up_encoded' = Append(up_encoded, [frame |-> up_writer.frame, state |-> up_state])
    /\ up_writer' = [up_writer EXCEPT !.pc = "write_all"]
    /\ UNCHANGED <<up_pc, up_reader, up_outgoing, up_incoming, up_state, up_wire, up_counts,
                   upHsOthers>>

\* writer.write_all(b).await returned Ok; the guard is dropped.
UpWriterWriteAll ==
    /\ up_writer.pc = "write_all"
    /\ up_lock' = "none"
    /\ up_writer' = [pc |-> "recv", frame |-> "none"]
    /\ UNCHANGED <<up_pc, up_reader, up_outgoing, up_incoming, up_state, up_encoded, up_wire,
                   up_counts, upHsOthers>>

\* initialize_as_upstream: receiver_incoming.recv() gave the message of the
\* initiator, state.step(Some(..)) made the answer and sender_outgoing.send
\* queued it: the second message after the first, the fourth after the third.
UpHandshakeStep ==
    /\ up_pc \in {"first", "third"}
    /\ up_incoming # << >>
    /\ Len(up_outgoing) < OutgoingCapacity
    /\ up_incoming' = Tail(up_incoming)
    /\ up_outgoing' = Append(up_outgoing, IF up_pc = "first" THEN "second" ELSE "fourth")
    /\ up_pc' = IF up_pc = "first" THEN "third" ELSE "sleep"
    /\ UNCHANGED <<up_lock, up_writer, up_reader, up_state, up_encoded, up_wire, up_counts,
                   upHsOthers>>

\* initialize_as_upstream: the loop that sleeps 1 ms and leaves once the
\* outgoing queue is empty; it then returns state.into_transport_mode().
UpHandshakeSleep ==
    /\ up_pc = "sleep"
    /\ up_pc' = IF up_outgoing = << >> THEN "set_state" ELSE "sleep"
    /\ UNCHANGED <<up_lock, up_writer, up_reader, up_outgoing, up_incoming, up_state, up_encoded,
                   up_wire, up_counts, upHsOthers>>

\* set_state: loop { if let Ok(c) = self_.try_lock() { c.state = state; break } }.
\* try_lock succeeds when nobody holds the Mutex; Connection::new returns.
UpSetState ==
    /\ up_pc = "set_state"
    /\ up_lock = "none"
    /\ up_state' = TransportMode
    /\ up_pc' = "done"
    /\ UNCHANGED <<up_lock, up_writer, up_reader, up_outgoing, up_incoming, up_encoded, up_wire,
                   up_counts, upHsOthers>>

\* The role, which got the two ends from Connection::new, sends a frame.
UpRoleSend ==
    /\ up_pc = "done"
    /\ up_counts.role < MaxRoleFrames
    /\ Len(up_outgoing) < OutgoingCapacity
    /\ up_outgoing' = Append(up_outgoing, "data")
    /\ up_counts' = [up_counts EXCEPT !.role = @ + 1]
    /\ UNCHANGED <<up_pc, up_lock, up_writer, up_reader, up_incoming, up_state, up_encoded,
                   up_wire, upHsOthers>>

\* The role receives a frame.
UpRoleRecv ==
    /\ up_pc = "done"
    /\ up_incoming # << >>
    /\ up_incoming' = Tail(up_incoming)
    /\ UNCHANGED <<up_pc, up_lock, up_writer, up_reader, up_outgoing, up_state, up_encoded,
                   up_wire, up_counts, upHsOthers>>

InitUpHs ==
    /\ up_pc = "first"
    /\ up_lock = "none"
    /\ up_writer = [pc |-> "recv", frame |-> "none"]
    /\ up_reader = [pc |-> "read_exact", frame |-> "none"]
    /\ up_outgoing = << >>
    /\ up_incoming = << >>
    /\ up_state = NotInitialized
    /\ up_encoded = << >>
    /\ up_wire = << >>
    /\ up_counts = [peer |-> 0, role |-> 0]

NextUpHs ==
    \/ UpPeerSend
    \/ UpReaderReadExact
    \/ UpReaderLock
    \/ UpReaderSend
    \/ UpWriterRecv
    \/ UpWriterEncode
    \/ UpWriterWriteAll
    \/ UpHandshakeStep
    \/ UpHandshakeSleep
    \/ UpSetState
    \/ UpRoleSend
    \/ UpRoleRecv

(***************************************************************************)
(* roles/v2/pool/src/lib/mining_pool/setup_connection.rs: the handler of   *)
(* the SetupConnection of a downstream of the pool.                        *)
(***************************************************************************)
\* The connections the pool accepts, each with its own handler.
PoolConnections == {"connA", "connB"}
\* Number of flag bits of a SetupConnection of the mining protocol, and the
\* flags that a downstream may send.
SetupFlagBits == 3
SetupFlags == 0..(2^SetupFlagBits - 1)
\* The first frame that a downstream sends: a SetupConnection, or another
\* common message.
FirstMessages ==
    {[type |-> "SetupConnection", flags |-> f] : f \in SetupFlags}
        \cup {[type |-> "ChannelEndpointChanged", flags |-> 0]}

\* Bit number bit of flags.
HasFlag(flags, bit) == (flags \div (2^bit)) % 2 = 1
\* common_messages_sv2: REQUIRES_STANDARD_JOBS, REQUIRES_WORK_SELECTION and
\* REQUIRES_VERSION_ROLLING are bits 0, 1 and 2 of the flags.
has_requires_std_job(flags) == HasFlag(flags, 0)
has_work_selection(flags) == HasFlag(flags, 1)
has_version_rolling(flags) == HasFlag(flags, 2)
\* SetupConnection::requires_standard_job
requires_standard_job(m) == has_requires_std_job(m.flags)

\* SetupConnectionHandler::new
SetupConnectionHandlerNew == [header_only |-> None]

\* ParseDownstreamCommonMessages::handle_setup_connection of the handler: it
\* records header_only and answers SetupConnectionSuccess { flags: 0,
\* used_version: 2 }.
handle_setup_connection(self, m) ==
    [self |-> [self EXCEPT !.header_only = Some(requires_standard_job(m))],
     ret |-> [kind |-> "Ok",
              message |-> [type |-> "SetupConnectionSuccess", flags |-> 0,
                           used_version |-> 2]]]

\* ParseDownstreamCommonMessages::handle_message_common: a SetupConnection
\* goes to handle_setup_connection, any other message is an Err.
handle_message_common(self, m) ==
    IF m.type = "SetupConnection"
    THEN handle_setup_connection(self, m)
    ELSE [self |-> self, ret |-> [kind |-> "Err", message |-> None]]

\* CommonDownstreamData built from the flags of the SetupConnectionSuccess.
CommonDownstreamDataOf(m) ==
    [header_only |-> has_requires_std_job(m.flags),
     work_selection |-> has_work_selection(m.flags),
     version_rolling |-> has_version_rolling(m.flags)]

\* setup, up to sender.send(sv2_frame).await: the first frame is received and
\* handled, the Result unwrapped, the answer framed.
PoolSetupRecv(c, m) ==
    /\ pool_setup[c].pc = "recv"
    /\ LET r == handle_message_common(pool_setup[c].handler, m)
       IN  pool_setup' = [pool_setup EXCEPT ![c] =
               [pc |-> IF r.ret.kind = "Ok" THEN "send" ELSE "panicked",
                handler |-> r.self,
                incoming_message |-> Some(m),
                response |-> r.ret.message,
                ret |-> None]]
    /\ UNCHANGED poolSetupOthers

\* setup, after the send: header_only is unwrapped and the
\* CommonDownstreamData is made from the message that was sent.
PoolSetupReturn(c) ==
    /\ pool_setup[c].pc = "send"
    /\ pool_setup' = [pool_setup EXCEPT ![c] =
           IF pool_setup[c].handler.header_only = None
              \/ pool_setup[c].response.type # "SetupConnectionSuccess"
           THEN [@ EXCEPT !.pc = "panicked"]
           ELSE [@ EXCEPT !.pc = "done",
                          !.ret = Some(CommonDownstreamDataOf(pool_setup[c].response))]]
    /\ UNCHANGED poolSetupOthers

InitPoolSetup ==
    pool_setup = [c \in PoolConnections |->
                    [pc |-> "recv", handler |-> SetupConnectionHandlerNew,
                     incoming_message |-> None, response |-> None, ret |-> None]]

NextPoolSetup ==
    \/ \E c \in PoolConnections, m \in FirstMessages : PoolSetupRecv(c, m)
    \/ \E c \in PoolConnections : PoolSetupReturn(c)

Init ==
    /\ InitDispatchers
    /\ InitGroups
    /\ InitSelector
    /\ InitUpstreamSelector
    /\ InitMapper
    /\ InitNoise
    /\ InitConnection
    /\ InitTasks
    /\ InitMutex
    /\ InitProxy
    /\ InitSend
    /\ InitTranslator
    /\ InitJobIds
    /\ InitShortHash
    /\ InitUpHs
    /\ InitPoolSetup

Next ==
    \/ \E d \in Dispatchers, j \in ExtendedJobIds, f \in BOOLEAN, c \in ChannelIds :
          DispatcherOnNewExtendedMiningJob(d, j, f, c)
    \/ \E g \in SiblingGroup : SiblingOnNewExtendedMiningJob(g)
    \/ \E d \in Dispatchers, j \in ExtendedJobIds, p \in PrevHashes, n \in NbitsValues :
          DispatcherOnNewPrevHash(d, j, p, n)
    \/ \E d \in Dispatchers, c \in ChannelIds, q \in SequenceNumbers, j \in 0..(MaxJobs + 1) :
          DispatcherOnSubmitShares(d, c, q, j)

Spec == Init /\ [][Next]_vars

NextGroups ==
    \/ UpstreamNewGroupChannel
    \/ \E r \in RequestIds, h \in HashRates, g \in 0..(MaxGroups + 1) :
          UpstreamNewStandardChannel(r, h, g)

SpecGroups == Init /\ [][NextGroups]_vars

NextSelector ==
    \/ \E r \in RequestIds, d \in Downstreams : SelectorOnOpenStandardChannelRequest(r, d)
    \/ \E r \in RequestIds, g \in GroupChannelIds, c \in ChannelIds :
          SelectorOnOpenStandardChannelSuccess(r, g, c)

SpecSelector == Init /\ [][NextSelector]_vars

NextUpstreamSelector ==
    \/ \E l \in UpstreamLists : UpstreamSelectorNew(l)
    \/ \E p \in PairProtocols, lo \in PairVersions, hi \in PairVersions, f \in PairFlags,
          passing \in SUBSET UpstreamFlags :
          UpstreamSelectorOnSetupConnection(PairSettings(p, lo, hi, f), passing)

SpecUpstreamSelector == Init /\ [][NextUpstreamSelector]_vars

NextMapper ==
    \/ \E id \in RequestIds : MapperOnOpenChannel(id)
    \/ \E u \in 0..MaxRequests : MapperRemove(u)

SpecMapper == Init /\ [][NextMapper]_vars

NextNoise ==
    \/ \E k \in AuthorityKeys : NoiseConnect(k)
    \/ \E k \in StaticKeys, m \in SignatureNoiseMessages : NoiseAccept(k, m)
    \/ \E now \in Times : InitiatorStep(now)
    \/ ResponderStep
    \/ \E l \in AlgorithmLists : NetAlterNegotiation(l)
    \/ NetCorruptNegotiation
    \/ \E a \in Algorithms : NetAlterChosen(a)
    \/ InitiatorIntoTransport
    \/ ResponderIntoTransport
    \/ \E side \in {"initiator", "responder"}, payload \in Payloads :
          TransportWrite(side, payload)
    \/ \E side \in {"initiator", "responder"} : TransportRead(side)

SpecNoise == Init /\ [][NextNoise]_vars

NextConnection ==
    \/ \E outcome \in ReadOutcomes : ReaderIteration(outcome)
    \/ ReceiverRecv

SpecConnection == Init /\ [][NextConnection]_vars

NextTasks ==
    \/ \E ok \in BOOLEAN : ReaderReadExact(ok)
    \/ \E frame_ok \in BOOLEAN : ReaderLockNextFrame(frame_ok)
    \/ ReaderSend
    \/ WriterRecv
    \/ WriterLock
    \/ \E ok \in BOOLEAN : WriterWriteAll(ok)
    \/ SetState
    \/ RoleSend
    \/ RoleDropSender
    \/ RoleRecv

SpecTasks == Init /\ [][NextTasks]_vars

NextMutex ==
    \/ \E thunk \in Thunks : MutexSafeLock(thunk)
    \/ \E thunk \in Thunks : MutexSuperSafeLock(thunk)

SpecMutex == Init /\ [][NextMutex]_vars

NextProxy ==
    \/ \E d \in ProxyDownstreams, g \in GroupChannelIds :
          NodeOnOpenStandardMiningChannelSuccess(d, g)
    \/ \E g \in GroupChannelIds, j \in UpstreamJobIds, f \in BOOLEAN :
          NodeOnNewExtendedMiningJob(g, j, f)
    \/ \E g \in GroupChannelIds, j \in UpstreamJobIds, p \in UpstreamPrevHashes :
          NodeOnSetNewPrevHash(g, j, p)

SpecProxy == Init /\ [][NextProxy]_vars

NextSend ==
    \/ \E frame \in SendFrames, env \in SendEnvs : NodeSend(frame, env)
    \/ \E env \in SendEnvs : NodeSetupFlagAndVersion(env)
    \/ NodeConnectionCloses
    \/ NodeConnectionWrites

SpecSend == Init /\ [][NextSend]_vars
SpecTranslator == Init /\ [][NextTranslator]_vars
SpecJobIds == Init /\ [][NextJobIds]_vars
SpecShortHash == Init /\ [][NextShortHash]_vars
SpecUpHs == Init /\ [][NextUpHs]_vars
SpecPoolSetup == Init /\ [][NextPoolSetup]_vars

(***************************************************************************)
(* Properties of the dispatcher (checked under Spec).                      *)
(***************************************************************************)
\* The entries of issued that were returned by dispatcher d.
IssuedBy(d) == {i \in DOMAIN issued : issued[i].d = d}

\* Every share that carries job id s.
SharesFor(s) == {SubmitSharesStandard(c, q, s) : c \in ChannelIds, q \in SequenceNumbers}

\* C1: a step that calls on_new_prev_hash with a job_id J that has an entry in
\* future_jobs returns Ok, leaves in jobs exactly the map that was stored at
\* future_jobs[J] before the call, and leaves future_jobs empty.
C1_PromotionReplacesJobs ==
    [][\A d \in Dispatchers :
          (/\ last'.op = "on_new_prev_hash"
           /\ last'.d = d
           /\ last'.arg.job_id \in DOMAIN dispatchers[d].future_jobs)
          => /\ last'.ret = "Ok"
             /\ dispatchers'[d].jobs = dispatchers[d].future_jobs[last'.arg.job_id]
             /\ dispatchers'[d].future_jobs = EmptyMap]_vars

\* C1 witness: a promotion returned Ok, the promoted map is not empty and a job
\* that was current before the promotion is no longer in jobs.
C1_Witness ==
    /\ last.op = "on_new_prev_hash"
    /\ last.ret = "Ok"
    /\ dispatchers[last.d].jobs # EmptyMap
    /\ \E i \in IssuedBy(last.d) :
          /\ ~issued[i].job.future_job
          /\ issued[i].job.job_id \notin DOMAIN dispatchers[last.d].jobs

\* C2: right after on_new_prev_hash(J) succeeded, every share for a standard
\* job that the dispatcher derived from an extended job other than J is
\* answered with Invalid, whether that job was queued or current before.
C2_StaleSharesRejected ==
    (last.op = "on_new_prev_hash" /\ last.ret = "Ok")
    => \A i \in IssuedBy(last.d) :
          issued[i].extended_job_id # last.arg.job_id
          => \A sh \in SharesFor(issued[i].job.job_id) :
                on_submit_shares(dispatchers[last.d], sh).kind = "Invalid"

\* C2 witness: job 8 was promoted while a current job and a queued future job
\* derived from extended job 7 existed.
C2_Witness ==
    /\ last.op = "on_new_prev_hash"
    /\ last.ret = "Ok"
    /\ last.arg.job_id = 8
    /\ \E i, k \in IssuedBy(last.d) :
          /\ issued[i].extended_job_id = 7 /\ ~issued[i].job.future_job
          /\ issued[k].extended_job_id = 7 /\ issued[k].job.future_job

\* C3: whenever on_submit_shares accepts a share for the standard job id s, the
\* share it produces carries the job_id of the NewExtendedMiningJob from which
\* s was derived.
C3_AcceptedShareNamesExtendedJob ==
    \A d \in Dispatchers : \A i \in IssuedBy(d) :
        \A sh \in SharesFor(issued[i].job.job_id) :
            LET r == on_submit_shares(dispatchers[d], sh)
            IN  r.kind = "Valid" => r.msg.job_id = issued[i].extended_job_id

\* C3 witness: future extended job 7, SetNewPrevHash{7}, then an accepted
\* share for the derived standard job, answered with job_id = 7.
C3_Witness ==
    /\ last.op = "on_submit_shares"
    /\ last.ret.kind = "Valid"
    /\ last.ret.msg.job_id = 7
    /\ dispatchers[last.d].prev_hash = <<45>>
    /\ \E i \in IssuedBy(last.d) :
          /\ issued[i].job.job_id = last.arg.job_id
          /\ issued[i].job.future_job
          /\ issued[i].extended_job_id = 7

\* C4 (as claimed): when two successive on_new_extended_mining_job calls
\* dispatch the same future extended job E to two distinct standard channels,
\* both derived standard jobs are held under future_jobs[E].
C4_Claimed ==
    [][\A d \in Dispatchers :
          (/\ last.op = "on_new_extended_mining_job"
           /\ last'.op = "on_new_extended_mining_job"
           /\ last.d = d /\ last'.d = d
           /\ last.arg.future_job /\ last'.arg.future_job
           /\ last.arg.job_id = last'.arg.job_id
           /\ last.channel # last'.channel)
          => /\ last'.arg.job_id \in DOMAIN dispatchers'[d].future_jobs
             /\ {last.ret.job_id, last'.ret.job_id}
                    \subseteq DOMAIN dispatchers'[d].future_jobs[last'.arg.job_id]]_vars

\* C5 (as claimed): on_new_prev_hash called with a job_id that has no entry in
\* future_jobs returns the NoFutureJobs error, also when future_jobs holds
\* other extended job ids.
C5_Claimed ==
    [][\A d \in Dispatchers :
          (/\ last'.op = "on_new_prev_hash"
           /\ last'.d = d
           /\ last'.arg.job_id \notin DOMAIN dispatchers[d].future_jobs)
          => last'.ret = "NoFutureJobs"]_vars

\* C6: on_new_prev_hash on a dispatcher whose future_jobs is empty returns
\* Err(NoFutureJobs) and leaves jobs, future_jobs, prev_hash and nbits as they
\* were, so every share answers as it did before the call.
C6_NoFutureJobsLeavesDispatcher ==
    [][\A d \in Dispatchers :
          (/\ last'.op = "on_new_prev_hash"
           /\ last'.d = d
           /\ dispatchers[d].future_jobs = EmptyMap)
          => /\ last'.ret = "NoFutureJobs"
             /\ dispatchers'[d].jobs = dispatchers[d].jobs
             /\ dispatchers'[d].future_jobs = dispatchers[d].future_jobs
             /\ dispatchers'[d].prev_hash = dispatchers[d].prev_hash
             /\ dispatchers'[d].nbits = dispatchers[d].nbits
             /\ \A s \in 0..(MaxJobs + 1) : \A sh \in SharesFor(s) :
                    on_submit_shares(dispatchers'[d], sh)
                        = on_submit_shares(dispatchers[d], sh)]_vars

\* C6 witness: the call failed with NoFutureJobs on a dispatcher that holds
\* current jobs.
C6_Witness ==
    /\ last.op = "on_new_prev_hash"
    /\ last.ret = "NoFutureJobs"
    /\ dispatchers[last.d].jobs # EmptyMap
    /\ dispatchers[last.d].future_jobs = EmptyMap

\* C7 (as claimed): every accepted share yields a share for the upstream that
\* carries the extranonce bytes of the standard channel the job was made for.
C7_Claimed ==
    \A d \in Dispatchers : \A i \in IssuedBy(d) :
        (/\ last.op = "on_submit_shares"
         /\ last.d = d
         /\ last.arg.job_id = issued[i].job.job_id
         /\ last.ret.kind = "Valid")
        => /\ "extranonce" \in DOMAIN last.ret.msg
           /\ last.ret.msg.extranonce = issued[i].channel.extranonce

\* C8 (as claimed): a rejected share is answered with a SubmitSharesError that
\* carries its channel_id and sequence_number and the error code "stale-share"
\* or "invalid-job-id".
C8_Claimed ==
    (last.op = "on_submit_shares" /\ last.ret.kind = "Invalid")
    => /\ last.ret.msg.channel_id = last.arg.channel_id
       /\ last.ret.msg.sequence_number = last.arg.sequence_number
       /\ last.ret.msg.error_code \in {"stale-share", "invalid-job-id"}

\* C9: the job ids returned by one dispatcher are strictly increasing in call
\* order and no job id is returned twice, by this dispatcher or by the
\* dispatchers that share the id generator.
C9_JobIdsMonotonic ==
    \A i, k \in DOMAIN issued :
        /\ (i < k /\ issued[i].d = issued[k].d)
              => issued[i].job.job_id < issued[k].job.job_id
        /\ i # k => issued[i].job.job_id # issued[k].job.job_id

\* C9 witness: the dispatcher drew an id, a dispatcher of another group drew
\* the next one from the shared generator, then the first dispatcher drew again.
C9_Witness ==
    /\ Len(issued) >= 3
    /\ issued[1].d \in Dispatchers
    /\ issued[2].d \in SiblingGroup
    /\ issued[3].d \in Dispatchers

(***************************************************************************)
(* Properties of UpstreamWithGroups (checked under SpecGroups).            *)
(***************************************************************************)
\* C10: two distinct standard channels opened beneath the same group never
\* receive the same extranonce_prefix.
C10_PrefixUniqueInGroup ==
    \A i, k \in DOMAIN opened :
        (i # k /\ opened[i].group_channel_id = opened[k].group_channel_id)
        => opened[i].extranonce_prefix # opened[k].extranonce_prefix

\* C10 witness: two channels of one group were opened with a channel of
\* another group opened in between.
C10_Witness ==
    /\ Len(opened) >= 3
    /\ opened[1].group_channel_id = opened[3].group_channel_id
    /\ opened[2].group_channel_id # opened[1].group_channel_id

\* C11 (as claimed): no channel_id returned by new_standard_channel is returned
\* for two different groups of the same upstream, so a channel_id alone names
\* one standard channel and its group.
C11_Claimed ==
    \A i, k \in DOMAIN opened :
        opened[i].channel_id = opened[k].channel_id
        => opened[i].group_channel_id = opened[k].group_channel_id

(***************************************************************************)
(* Properties of ProxyDownstreamMiningSelector (checked under SpecSelector).*)
(***************************************************************************)
\* C12: a step on_open_standard_channel_success(r, g, c) taken while request r
\* is pending for downstream d returns d, leaves r no longer pending, makes
\* downstream_from_channel_id(c) answer d, appends d at the end of
\* get_downstreams_in_channel(g), and leaves the entries of every other request
\* id, channel and group as they were.
C12_SuccessRoutesDownstream ==
    [][\A r \in RequestIds, g \in GroupChannelIds, c \in ChannelIds :
          (/\ sel_last'.op = "on_open_standard_channel_success"
           /\ sel_last'.request_id = r
           /\ sel_last'.g_channel_id = g
           /\ sel_last'.channel_id = c
           /\ r \in DOMAIN selector.request_id_to_remotes)
          => LET d == selector.request_id_to_remotes[r]
                 before == IF g \in DOMAIN selector.channel_id_to_downstreams
                           THEN get_downstreams_in_channel(selector, g)
                           ELSE << >>
             IN  /\ sel_last'.ret = d
                 /\ r \notin DOMAIN selector'.request_id_to_remotes
                 /\ downstream_from_channel_id(selector', c) = [kind |-> "Some", value |-> d]
                 /\ get_downstreams_in_channel(selector', g) = Append(before, d)
                 /\ \A r2 \in RequestIds \ {r} :
                       /\ (r2 \in DOMAIN selector'.request_id_to_remotes)
                             = (r2 \in DOMAIN selector.request_id_to_remotes)
                       /\ r2 \in DOMAIN selector.request_id_to_remotes
                             => selector'.request_id_to_remotes[r2]
                                    = selector.request_id_to_remotes[r2]
                 /\ \A c2 \in ChannelIds \ {c} :
                       downstream_from_channel_id(selector', c2)
                           = downstream_from_channel_id(selector, c2)
                 /\ \A g2 \in GroupChannelIds \ {g} :
                       get_downstreams_in_channel(selector', g2)
                           = get_downstreams_in_channel(selector, g2)]_vars

\* C12 witness: downB was opened in a group that already held downA, while
\* another request is still pending and another channel is routed.
C12_Witness ==
    /\ sel_last.op = "on_open_standard_channel_success"
    /\ sel_last.ret = "downB"
    /\ sel_last.g_channel_id \in DOMAIN selector.channel_id_to_downstreams
    /\ selector.channel_id_to_downstreams[sel_last.g_channel_id] = <<"downA", "downB">>
    /\ selector.request_id_to_remotes # EmptyMap
    /\ DOMAIN selector.channel_id_to_downstream = ChannelIds

(***************************************************************************)
(* Properties of GeneralMiningSelector (checked under SpecUpstreamSelector).*)
(***************************************************************************)
\* Bit k (counted from 0) of x.
BitOf(x, k) == (x \div (2 ^ k)) % 2

\* C13: on_setup_connection returns, in the order of the selector's list,
\* exactly the upstreams whose version lies in [min_v, max_v] and whose flags
\* pass the flag check, with a flag word whose bits are exactly the bits set in
\* one of those upstreams' flags; it returns Err(NoPairableUpstream) exactly
\* when no upstream is pairable; and the upstreams of the selector are the same
\* before and after the call.
C13_PairableUpstreamsAndFlags ==
    [][pair_last'.op = "on_setup_connection"
       => LET ps == pair_last'.pair_settings
              ups == upstream_selector.upstreams
              Pairable == {i \in DOMAIN ups :
                              /\ ps.min_v <= ups[i].version
                              /\ ups[i].version <= ps.max_v
                              /\ check_flags(pair_last'.passing, ps.protocol, ps.flags,
                                             ups[i].flags)}
              ret == pair_last'.ret
          IN  /\ upstream_selector' = upstream_selector
              /\ (ret.kind = "Err") = (Pairable = {})
              /\ ret.kind = "Err" => ret.error = "NoPairableUpstream"
              /\ ret.kind = "Ok" =>
                    /\ {ret.upstreams[k] : k \in DOMAIN ret.upstreams}
                           = {ups[i] : i \in Pairable}
                    /\ Len(ret.upstreams) = Cardinality(Pairable)
                    /\ \A k \in 0..(FlagBits - 1) :
                          (BitOf(ret.flags, k) = 1)
                              = (\E i \in Pairable : BitOf(ups[i].flags, k) = 1)
                    /\ ret.flags < 2 ^ FlagBits]_vars

\* C13 witness: two upstreams that share a flag bit were both paired and the
\* shared bit is reported once.
C13_Witness ==
    /\ pair_last.op = "on_setup_connection"
    /\ pair_last.ret.kind = "Ok"
    /\ Len(pair_last.ret.upstreams) = 2
    /\ pair_last.ret.upstreams[1].flags = 3
    /\ pair_last.ret.upstreams[2].flags = 1
    /\ pair_last.ret.flags = 3

(***************************************************************************)
(* Properties of RequestIdMapper (checked under SpecMapper).               *)
(***************************************************************************)
\* The i-th on_open_channel call returned i - 1: 0, 1, 2, ... in call order.
AssignedInCallOrder == \A i \in DOMAIN assigned : assigned[i].upstream_id = i - 1

\* Every pending upstream id was assigned and maps to the downstream id of the
\* call that returned it.
PendingMapsToItsCall ==
    \A u \in DOMAIN mapper.request_ids_map :
        /\ u + 1 \in DOMAIN assigned
        /\ mapper.request_ids_map[u] = assigned[u + 1].downstream_id

\* A remove(u) that returned gave the downstream id of the call that returned u
\* and left u no longer pending.
RemoveReturnsItsCall ==
    (mapper_last.op = "remove" /\ mapper_last.ret.kind = "Ok")
    => /\ mapper_last.arg + 1 \in DOMAIN assigned
       /\ mapper_last.ret.value = assigned[mapper_last.arg + 1].downstream_id
       /\ mapper_last.arg \notin DOMAIN mapper.request_ids_map

\* C14 (as claimed): at every point the mapper holds a bijection between the
\* pending downstream request ids and the upstream request ids it assigned
\* (no two pending upstream ids stand for the same downstream id), upstream ids
\* are assigned 0, 1, 2, ... and remove(u) returns the downstream id of the
\* call that returned u.
C14_Claimed ==
    /\ \A u, v \in DOMAIN mapper.request_ids_map :
          mapper.request_ids_map[u] = mapper.request_ids_map[v] => u = v
    /\ AssignedInCallOrder
    /\ PendingMapsToItsCall
    /\ RemoveReturnsItsCall

\* C14 (amended): at every point request_ids_map is a function from the pending
\* upstream request ids to the downstream id of the on_open_channel call that
\* returned them, one entry per pending call; two pending calls may carry the
\* same downstream id.  Upstream ids are assigned 0, 1, 2, ... in call order and
\* never reused, and remove(u) for a pending u returns the downstream id that
\* was passed to the call that returned u.
C14_MapperRoutesBack ==
    /\ AssignedInCallOrder
    /\ PendingMapsToItsCall
    /\ RemoveReturnsItsCall
    /\ mapper.next_id = Len(assigned)

\* C14 witness: a remove returned downstream id 5 while another call with
\* downstream id 5 and one with downstream id 6 are still pending.
C14_Witness ==
    /\ mapper_last.op = "remove"
    /\ mapper_last.ret = [kind |-> "Ok", value |-> 5]
    /\ \E u, v \in DOMAIN mapper.request_ids_map :
          /\ mapper.request_ids_map[u] = 5
          /\ mapper.request_ids_map[v] = 6

(***************************************************************************)
(* Properties of the noise handshake (checked under SpecNoise).            *)
(***************************************************************************)
\* The results of an undisturbed handshake, in call order.
ExpectedResults ==
    <<[who |-> "initiator", ret |-> "ExpectReply"],
      [who |-> "responder", ret |-> "ExpectReply"],
      [who |-> "initiator", ret |-> "ExpectReply"],
      [who |-> "responder", ret |-> "NoMoreReply"],
      [who |-> "initiator", ret |-> "Done"]>>

\* The responder's certificate was made by the authority the initiator is
\* configured with, for the responder's static key.
MatchingAuthorityKeys ==
    /\ i_status # "absent"
    /\ r_status # "absent"
    /\ responder.signature_noise_message.signature.signer = initiator.authority_public_key
    /\ responder.signature_noise_message.signature.signed.pubkey = responder.static_keypair

\* The clock value now lies within the validity of the responder's certificate.
WithinValidity(now) ==
    /\ responder.signature_noise_message.valid_from <= now
    /\ now < responder.signature_noise_message.not_valid_after

\* Nothing was altered in transit and every certificate validation so far
\* took place while the certificate was valid.
Undisturbed ==
    /\ ~altered.list
    /\ ~altered.choice
    /\ \A i \in DOMAIN hs_log :
          (hs_log[i].who = "initiator" /\ hs_log[i].stage = 2) => WithinValidity(hs_log[i].now)

C16_ResponderChoice ==
    [][(/\ hs_log' # hs_log
        /\ hs_log'[Len(hs_log')].who = "responder"
        /\ hs_log'[Len(hs_log')].stage = 0
        /\ net_to_r.value.kind = "negotiation")
       => LET algos == net_to_r.value.algos
              own == responder.algorithms
              Requested == {algos[k] : k \in DOMAIN algos}
              Common == {own[i] : i \in DOMAIN own} \cap Requested
              entry == hs_log'[Len(hs_log')]
          IN  IF Common = {}
              THEN /\ entry.ret = "Err"
                   /\ entry.error = "EncryptionAlgorithmNotFound"
                   /\ net_to_i' = net_to_i
                   /\ responder'.stage = 0
                   /\ responder'.chosen_algorithm = None
              ELSE \E i \in DOMAIN own :
                      /\ own[i] \in Requested
                      /\ \A k \in 1..(i - 1) : own[k] \notin Requested
                      /\ entry.ret = "ExpectReply"
                      /\ net_to_i' = Some([kind |-> "chosen", algo |-> own[i]])
                      /\ responder'.chosen_algorithm = Some(own[i])
                      /\ responder'.requested_algorithms = algos
                      /\ responder'.stage = 1]_vars

\* C16 witness: the requested list named AesGcm before ChaChaPoly and the
\* responder chose ChaChaPoly, the first of its own list.
C16_Witness ==
    /\ r_status = "handshake"
    /\ responder.stage = 1
    /\ responder.requested_algorithms = <<"AesGcm", "ChaChaPoly">>
    /\ responder.chosen_algorithm = Some("ChaChaPoly")
    /\ net_to_i = Some([kind |-> "chosen", algo |-> "ChaChaPoly"])

\* Both sides built their handshake state from a prologue.
BothNegotiated ==
    /\ i_status # "absent"
    /\ r_status # "absent"
    /\ initiator.stage >= 2
    /\ responder.handshake_state # None

\* C17: once both sides negotiated, the Initiator's prologue (its own list and
\* the choice it received) equals the Responder's prologue (the list it
\* received and its choice) when nothing was altered in transit; when the list
\* or the choice was altered the two prologues differ, and the Initiator does
\* not reach Done.
C17_PrologueAgreement ==
    /\ (BothNegotiated /\ ~altered.list /\ ~altered.choice)
          => initiator.handshake_state.prologue = responder.handshake_state.value.prologue
    /\ (altered.list \/ altered.choice)
          => /\ BothNegotiated
                   => initiator.handshake_state.prologue
                          # responder.handshake_state.value.prologue
             /\ i_status \notin {"done", "transport"}
             /\ initiator.stage # 3
             /\ i_transport = None

\* C17 witness: the list was altered in transit, the handshake went on and the
\* Initiator's stage-2 step failed on the responder's message.
C17_Witness ==
    /\ altered.list
    /\ ~altered.choice
    /\ BothNegotiated
    /\ responder.stage = 2
    /\ i_status = "panicked"
    /\ hs_log[Len(hs_log)].who = "initiator"
    /\ hs_log[Len(hs_log)].error = "SnowError"

\* C18: a stage-2 step of the Initiator taken on a certificate whose signature
\* does not verify under the configured authority key for the responder's
\* static key, or at a time now < valid_from or now >= not_valid_after, returns
\* an error; the Initiator then is not Done and no transport state is
\* installed.  The Initiator is Done only after a stage-2 step that validated
\* the certificate.
C18_DoneOnlyAfterValidation ==
    /\ \A i \in DOMAIN hs_log :
          (/\ hs_log[i].who = "initiator"
           /\ hs_log[i].stage = 2
           /\ ~(MatchingAuthorityKeys /\ WithinValidity(hs_log[i].now)))
          => /\ hs_log[i].ret = "Err"
             /\ initiator.stage = 2
             /\ i_status = "panicked"
             /\ i_transport = None
    /\ (i_status # "absent" /\ (initiator.stage = 3 \/ i_transport # None))
          => \E i \in DOMAIN hs_log :
                /\ hs_log[i].who = "initiator"
                /\ hs_log[i].stage = 2
                /\ hs_log[i].ret = "Done"
                /\ MatchingAuthorityKeys
                /\ WithinValidity(hs_log[i].now)

\* C18 witness: a certificate with a good signature was presented at
\* now = not_valid_after and the stage-2 step answered InvalidCertificate.
C18_Witness ==
    /\ MatchingAuthorityKeys
    /\ hs_log # << >>
    /\ hs_log[Len(hs_log)].who = "initiator"
    /\ hs_log[Len(hs_log)].stage = 2
    /\ hs_log[Len(hs_log)].now = responder.signature_noise_message.not_valid_after
    /\ hs_log[Len(hs_log)].error = "InvalidCertificate"
    /\ i_status = "panicked"

\* C19: in both directions the i-th message read by one endpoint is the i-th
\* payload written by the other; every encrypted message is exactly 16 bytes
\* longer than its payload; size_hint_encrypt(n) = n + 16, size_hint_decrypt(m)
\* = m - 16 for m >= 16 and an error for m < 16.
C19_TransportRoundTrip ==
    /\ \A side \in {"initiator", "responder"} :
          /\ Len(tr_received[side]) <= Len(tr_sent[side])
          /\ \A i \in DOMAIN tr_received[side] :
                tr_received[side][i] = [kind |-> "Ok", value |-> tr_sent[side][i].payload]
          /\ \A i \in DOMAIN tr_sent[side] :
                tr_sent[side][i].encrypted_len = Len(tr_sent[side][i].payload) + 16
          /\ \A i \in DOMAIN wire[side] : Len(wire[side][i]) >= 16
    /\ \A n \in 0..MaxPayloadLen : size_hint_encrypt(n) = n + 16
    /\ \A m \in 0..(MaxPayloadLen + 16) :
          size_hint_decrypt(m) = IF m < 16
                                 THEN [kind |-> "Err", error |-> "MessageToDecryptIsEmpty"]
                                 ELSE [kind |-> "Ok", value |-> m - 16]

\* C19 witness: two different payloads went from the initiator to the responder
\* and were read in order, and one went the other way and was read.
C19_Witness ==
    /\ Len(tr_received["initiator"]) = 2
    /\ tr_received["initiator"][1].value = <<7, 8>>
    /\ tr_received["initiator"][2].value = <<7>>
    /\ Len(tr_received["responder"]) >= 1
    /\ tr_received["responder"][1].kind = "Ok"

(***************************************************************************)
(* Properties of the reader task (checked under SpecConnection).           *)
(***************************************************************************)
\* The iterations whose next_frame failed for another reason than missing bytes.
FatalDecodes ==
    {i \in DOMAIN read_log :
        /\ read_log[i].read = "Ok"
        /\ read_log[i].next_frame.kind = "Err"
        /\ read_log[i].next_frame.error # "MissingBytes"}

\* C20 (as claimed): once the decoder failed for another reason than needing
\* more bytes, the reader has stopped (the connection is closed) and no later
\* frame of that connection is delivered to the incoming queue.
C20_Claimed ==
    \A i \in FatalDecodes :
        /\ reader_status # "running"
        /\ \A k \in DOMAIN read_log :
              (k > i /\ read_log[k].read = "Ok") => read_log[k].next_frame.kind # "Ok"

(***************************************************************************)
(* Properties of the connection's tasks (checked under SpecTasks).         *)
(***************************************************************************)
\* The reader waits for room on the full incoming queue with the guard alive.
ReaderWaitsHoldingLock ==
    reader_pc = "send" /\ Len(incoming_q) = IncomingCapacity /\ lock_holder = "reader"

\* The writer waits for the socket write with the guard alive.
WriterWaitsHoldingLock == writer_pc = "write_all" /\ lock_holder = "writer"

\* C21: no task holds the lock on the connection's Noise state across a
\* suspension point: the reader does not hold it while it waits for room on
\* the incoming queue, nor the writer while it waits for the socket write, so
\* that a full incoming queue never keeps the writer or set_state from the
\* lock.
C21_Claimed ==
    /\ ~ReaderWaitsHoldingLock
    /\ ~WriterWaitsHoldingLock
    /\ (Len(incoming_q) = IncomingCapacity /\ (writer_pc = "lock" \/ ~state_set))
           => lock_holder # "reader"

\* C22: once the reader or the writer of a connection has stopped on an
\* error, the other task of the connection makes no further step but to stop.
C22_Claimed ==
    [][/\ reader_pc = "panicked" => writer_pc' \in {writer_pc, "panicked"}
       /\ writer_pc = "panicked" => reader_pc' \in {reader_pc, "panicked"}]_vars

(***************************************************************************)
(* Properties of the Mutex (checked under SpecMutex).                      *)
(***************************************************************************)
\* C23: poisoning is signalled explicitly: a call of safe_lock or of
\* super_safe_lock on a Mutex that a panicking closure has poisoned returns
\* an error value to its caller and does not panic.
C23_Claimed ==
    (mutex_last.op \in {"safe_lock", "super_safe_lock"} /\ mutex_last.poisoned)
        => mutex_last.ret.kind = "Err"

(***************************************************************************)
(* Properties of the proxy's upstream node (checked under SpecProxy).      *)
(***************************************************************************)
\* The directive list returned for the last message, empty unless Multiple.
LastMessages ==
    IF node_last.ret.kind = "Multiple" THEN node_last.ret.messages ELSE << >>

\* Downstream d has a group channel under group channel id g.
HasGroupChannel(d, g) ==
    /\ g \in DOMAIN down_nodes[d].channels
    /\ \E i \in DOMAIN down_nodes[d].channels[g] : down_nodes[d].channels[g][i].kind = "Group"

\* C24: in the list of relays produced for one NewExtendedMiningJob, every
\* relay to a standard-channel child comes before every relay to a
\* group-channel child, whatever the order of registration.
C24_Claimed ==
    node_last.op = "handle_new_extended_mining_job" =>
        \A i, j \in DOMAIN LastMessages :
            (LastMessages[i].kind = "RelayNewMessage"
                /\ LastMessages[j].kind = "RelaySameMessage") => i < j

\* C25: a NewExtendedMiningJob that arrives on a channel with a group-channel
\* downstream is relayed unchanged to that downstream, also when the event
\* fans out to several downstreams or the channel has no dispatcher.
C25_Claimed ==
    node_last.op = "handle_new_extended_mining_job" =>
        \A d \in ProxyDownstreams :
            HasGroupChannel(d, node_last.m.channel_id) =>
                \E i \in DOMAIN node_last.sent :
                    node_last.sent[i] = [to |-> d, type |-> "NewExtendedMiningJob",
                                         message |-> node_last.m]

\* The SetNewPrevHash at place i of the frames sent to d names a job id that
\* its channel got earlier in a NewMiningJob with future_job set.
NamesEarlierFutureJob(d, i) ==
    \E k \in 1..(i - 1) :
        /\ down_nodes[d].inbox[k].type = "NewMiningJob"
        /\ down_nodes[d].inbox[k].message.channel_id = down_nodes[d].inbox[i].message.channel_id
        /\ down_nodes[d].inbox[k].message.job_id = down_nodes[d].inbox[i].message.job_id
        /\ down_nodes[d].inbox[k].message.future_job

\* C26: every SetNewPrevHash sent on a downstream standard channel names a
\* job id that the channel received before in a NewMiningJob with
\* future_job = true, and it is sent only when the dispatcher accepted the
\* upstream's SetNewPrevHash.
C26_Claimed ==
    /\ \A d \in ProxyDownstreams : \A i \in DOMAIN down_nodes[d].inbox :
           down_nodes[d].inbox[i].type = "SetNewPrevHash" => NamesEarlierFutureJob(d, i)
    /\ (node_last.op = "handle_set_new_prev_hash" /\ node_last.sent # << >>)
           => node_last.accepted = "Ok"

(***************************************************************************)
(* Properties of UpstreamMiningNode::send (checked under SpecSend).        *)
(***************************************************************************)
\* The upstream is marked as connected: connection and sv2_connection present.
MarkedConnected(n) == n.connection # "None" /\ n.sv2_connection

\* C30: send on a connected node whose underlying send fails does not deliver
\* the message, returns an error and leaves the upstream marked as not
\* connected; send on a node without connection returns Ok only if the
\* message was sent and a connection is present.
C30_Claimed ==
    send_last.op = "send" =>
        /\ (MarkedConnected(send_last.before) /\ send_last.before.connection = "Closed")
               => /\ send_last.ret = "Err"
                  /\ send_last.delivered = << >>
                  /\ ~MarkedConnected(mining_node)
        /\ (send_last.before.connection = "None" /\ send_last.ret = "Ok")
               => /\ send_last.delivered # << >>
                  /\ Head(send_last.delivered) = send_last.frame
                  /\ mining_node.connection # "None"

\* C27: every queue between tasks is bounded and its producer waits when it is
\* full: a mining.submit handled while the capacity-10 share queue to the
\* bridge is full neither drops the share nor aborts the task of the
\* downstream (here: the call does not end in a panic and the reader task of
\* that downstream is still running).
C27_Claimed ==
    (sv1_last.op = "mining.submit" /\ sv1_last.first_job_received /\ sv1_last.full)
        => /\ sv1_last.outcome # "panic"
           /\ sv1[sv1_last.d].reader_task = "running"

\* The mining.set_difficulty and mining.notify that the notify task pushed to
\* a downstream, in the order they were pushed.
InitialPushes(d) ==
    SelectSeq(sv1[d].sender_outgoing, LAMBDA m : m.by = "notify_task")

\* C28: for every SV1 downstream the initial mining.set_difficulty and
\* mining.notify are pushed only once the first NewExtendedMiningJob +
\* SetNewPrevHash pair has arrived; a downstream that authorizes earlier waits
\* (its task keeps running), and it then gets one initial set_difficulty
\* followed by the initial notify, and no mining.notify before that
\* set_difficulty.
C28_Claimed ==
    \A d \in Sv1Downstreams :
        LET pushed == InitialPushes(d)
        IN /\ (pushed # << >>) => last_notify # None
           /\ sv1[d].poisoned \/ sv1[d].notify_task # "panicked"
           /\ (pushed # << >>) =>
                 /\ pushed[1].method = "mining.set_difficulty"
                 /\ Len(pushed) >= 2
                 /\ pushed[2].method = "mining.notify"
                 /\ \A i \in 2..Len(pushed) : pushed[i].method = "mining.notify"

\* C29: every SV1 downstream connection accepted by the translator has a
\* range1 that differs from the range1 of every other active downstream under
\* the same extended channel.
C29_Claimed ==
    \A d1, d2 \in Sv1Downstreams :
        (d1 # d2 /\ sv1[d1].connected /\ sv1[d2].connected)
            => sv1[d1].extranonce.range_1 # sv1[d2].extranonce.range_1

\* C31: no task can panic while it holds the global ROUTING_LOGIC or
\* JOB_ID_TO_UPSTREAM_ID mutex, so neither is ever poisoned: every closure run
\* under these locks completes for every input, upstream_from_job_id with a
\* job id that was never added or was removed by add_job_id included.
C31_Claimed ==
    /\ ~global_locks.ROUTING_LOGIC
    /\ ~global_locks.JOB_ID_TO_UPSTREAM_ID
    /\ (job_id_last.op = "upstream_from_job_id") => ~job_id_last.panic

\* C38: JOB_ID_TO_UPSTREAM_ID maps every job id sent downstream, and still in
\* the map, to the upstream that issued that job: job ids relayed from
\* different upstreams and job ids made by the shared generator never
\* overwrite one another, so upstream_from_job_id never names an upstream
\* other than the job's origin.
C38_Claimed ==
    \A i \in DOMAIN relayed_jobs :
        relayed_jobs[i].job_id \in DOMAIN job_id_to_upstream_id
            => job_id_to_upstream_id[relayed_jobs[i].job_id] = relayed_jobs[i].upstream

\* The 6 bytes of lowest weight of a u64, the least significant first: the
\* value truncated to its least significant 48 bits.
LowSixBytes(v) == [i \in 1..6 |-> v[i - 1]]

\* C32: get_short_hash returns the 6 low-order bytes of the 64-bit SipHash-2-4
\* value of the txid, with the keys k0, k1 taken as the two little-endian u64
\* halves of the first 16 bytes of SHA256 of the little-endian nonce.
C32_Claimed ==
    (short_hash_last.op = "get_short_hash") =>
        LET r == short_hash_last.ret
            h == Sha256(U64ToLeBytes(short_hash_last.nonce))
        IN /\ r.k0 = U64FromLeBytes(SubSeq(h, 1, 8))
           /\ r.k1 = U64FromLeBytes(SubSeq(h, 9, 16))
           /\ r.tx_hashed = SipHash24(r.k0, r.k1, short_hash_last.txid)
           /\ r.short_tx_id = LowSixBytes(r.tx_hashed)

\* The share answers for standard job id s on dispatcher d in the state given.
AllAnswered(disp, s, kind) ==
    \A sh \in SharesFor(s) : on_submit_shares(disp, sh).kind = kind

\* C33: a standard job derived from a future extended job E is not
\* submittable before it is activated and is submittable after: while no
\* on_new_prev_hash succeeded on the dispatcher, on_submit_shares answers
\* Invalid for every job queued under future_jobs and for every job derived
\* from a future extended job; when the first on_new_prev_hash(E) succeeds it
\* answers Valid for every standard job derived from E.  A job derived from a
\* non-future extended job is accepted as soon as on_new_extended_mining_job
\* returned, and on_submit_shares never changes the dispatcher.
C33_Claimed ==
    [][\A d \in Dispatchers :
          /\ (dispatchers[d].prev_hash = << >>)
                => \A i \in IssuedBy(d) :
                      issued[i].job.future_job
                          => AllAnswered(dispatchers[d], issued[i].job.job_id, "Invalid")
          /\ (/\ last'.op = "on_new_prev_hash" /\ last'.d = d /\ last'.ret = "Ok"
              /\ dispatchers[d].prev_hash = << >>)
                => \A i \in IssuedBy(d) :
                      (issued[i].job.future_job
                       /\ issued[i].extended_job_id = last'.arg.job_id)
                          => AllAnswered(dispatchers'[d], issued[i].job.job_id, "Valid")
          /\ (/\ last'.op = "on_new_extended_mining_job" /\ last'.d = d
              /\ ~last'.arg.future_job)
                => AllAnswered(dispatchers'[d], last'.ret.job_id, "Valid")
          /\ (last'.op = "on_submit_shares" /\ last'.d = d)
                => dispatchers'[d] = dispatchers[d]]_vars

\* The standard channels that the downstreams hold under group channel g.
StandardChannelsUnder(g) ==
    {down_nodes[d].channels[g][i].channel.channel_id :
        <<d, i>> \in {x \in ProxyDownstreams \X (1..MaxOpened + 1) :
                        /\ g \in DOMAIN down_nodes[x[1]].channels
                        /\ x[2] \in DOMAIN down_nodes[x[1]].channels[g]
                        /\ down_nodes[x[1]].channels[g][x[2]].kind = "Standard"}}

\* The places of the last directive list that hold a new message for channel c.
DerivedFor(c) ==
    {i \in DOMAIN LastMessages :
        /\ LastMessages[i].kind = "RelayNewMessage"
        /\ LastMessages[i].message.channel_id = c}

\* C34: for each NewExtendedMiningJob and each SetNewPrevHash received for a
\* group, every standard channel under that group is sent exactly one derived
\* message (so one job id is generated per standard channel), also when one
\* downstream opened several standard channels in the group.
C34_Claimed ==
    (/\ node_last.op \in {"handle_new_extended_mining_job", "handle_set_new_prev_hash"}
     /\ node_last.ret.kind = "Multiple")
        => \A c \in StandardChannelsUnder(node_last.m.channel_id) :
              Cardinality(DerivedFor(c)) = 1

\* The dispatchers of the upstream node, by group channel id.
NodeDispatchers == upstream_node.channel_id_to_job_dispatcher

LaterNotifies(d) ==
    {InitialPushes(d)[i].value : i \in 3..Len(InitialPushes(d))}

\* The mining.notify written to downstream d so far.
NotifiesWritten(d) ==
    {InitialPushes(d)[i].value : i \in 2..Len(InitialPushes(d))}

\* Downstream d is authorized and its notify task runs.
Sv1Served(d) ==
    /\ sv1[d].connected
    /\ sv1[d].authorized_names # << >>
    /\ sv1[d].notify_task = "running"
    /\ ~sv1[d].poisoned

\* C35: with two or more authorized SV1 downstreams, a mining.notify made by
\* the bridge after the initial one is never delivered to only one of them:
\* whenever one downstream was written such a notify, every other authorized
\* downstream was written it too or it is still on its way to that downstream
\* (queued on the mining_notify channel, or kept in last_notify for a
\* downstream whose initial push is still to come).
C35_Claimed ==
    \A d1, d2 \in Sv1Downstreams :
        (d1 # d2 /\ Sv1Served(d1) /\ Sv1Served(d2))
            => \A n \in LaterNotifies(d1) :
                  \/ n \in NotifiesWritten(d2)
                  \/ \E i \in DOMAIN mining_notify_q : <<"notify", mining_notify_q[i]>> = n
                  \/ (~sv1[d2].first_sent /\ last_notify = Some(n[2]))

\* C36: on the responder side of Connection::new the last handshake message
\* is encoded while the codec state of the Connection is not yet the transport
\* state, under every interleaving of the caller and the writer task:
\* set_state never takes effect between the writer taking that frame from the
\* queue and encoding it.
C36_Claimed ==
    \A i \in DOMAIN up_encoded :
        up_encoded[i].frame = "fourth" => up_encoded[i].state # TransportMode

\* The stage of the Initiator or the Responder.
StageOf(who, i, r) == IF who = "initiator" THEN i.stage ELSE r.stage

\* C39: for both Initiator and Responder, every call of step returns; a call
\* that returns Ok advances stage by exactly one and a call that returns Err
\* leaves stage as it was, for every input, a first message to the Responder
\* that does not parse as a NegotiationMessage included.
C39_Claimed ==
    [][Len(hs_log') = Len(hs_log) + 1
        => LET e == hs_log'[Len(hs_log')]
               before == StageOf(e.who, initiator, responder)
               after == StageOf(e.who, initiator', responder')
           IN  /\ e.ret # "panic"
               /\ e.ret = "Err" => after = before
               /\ e.ret \in {"ExpectReply", "NoMoreReply", "Done"} => after = before + 1]_vars

\* C40: the CommonDownstreamData that the pool's setup returns reflects the
\* SetupConnection of the downstream: header_only is true exactly when the
\* SetupConnection required standard jobs (the value the handler recorded),
\* and work_selection and version_rolling are those that it asked for.
C40_Claimed ==
    \A c \in PoolConnections :
        pool_setup[c].pc = "done"
            => LET m == pool_setup[c].incoming_message.value
                   data == pool_setup[c].ret.value
               IN  /\ data.header_only = requires_standard_job(m)
                   /\ data.header_only = pool_setup[c].handler.header_only.value
                   /\ data.work_selection = has_work_selection(m.flags)
                   /\ data.version_rolling = has_version_rolling(m.flags)

====
